---- MODULE Spec2Model ----
(***************************************************************************)
(* Model of the allocation recommendation engine of weekly-wealth-advisor: *)
(* the rule-based engine generateAnalysis, the AI-augmented engine         *)
(* generateClaudeAnalysis (analysisEngine.ts) and the snapshot history of  *)
(* snapshotService.ts.                                                     *)
(*                                                                         *)
(* Numbers.  Weekly changes and prices are integers.  A slot percentage    *)
(* split over the 1 or 2 assets picked for the slot is kept in units of    *)
(* 1/PctScale percent, so 12.5 is the integer 25.  Math.round(x) is        *)
(* floor(x + 1/2), computed exactly on the rational x; for every weight    *)
(* the three blueprints can produce the IEEE double result is the same.    *)
(* The JavaScript value NaN is the integer NaN below, which no arithmetic  *)
(* of the model can otherwise produce; Js* operators propagate it the way  *)
(* IEEE arithmetic does.                                                   *)
(***************************************************************************)
EXTENDS Integers, Sequences, FiniteSets, TLC

VARIABLES
    assets,        \* Asset[] handed to the engine (the asset feed)
    riskLevel,     \* 'low' | 'medium' | 'high'
    targetReturn,  \* monthly target return in percent
    hasClaudeKey,  \* apiKeyStore.hasClaudeKey()
    reply,         \* what the AI proxy answered to the last call
    ret,           \* how the last call ended: returned value or thrown error
    snapshots,     \* localStorage['portfolyoai_snapshots'], parsed
    saveLog,       \* every snapshot handed to saveSnapshot, in call order
    prevRecs,      \* localStorage['portfolyoai_prev_recommendations'], parsed
    snap,          \* the PortfolioSnapshot in hand (built, or loaded from the history)
    analysis,      \* the outcome of the engine the snapshot in hand was built from
    prices,        \* daily closing prices of one symbol, oldest first
    displayed,     \* Index.tsx: the analysis state, what setAnalysis was last given
    shownDiff,     \* Index.tsx: the portfolioDiff state
    performance,   \* Index.tsx: the performance state
    isAnalyzing,   \* Index.tsx: the isAnalyzing state
    pc,            \* where the handleAnalyze run in progress stands
    currentFeed,   \* handleAnalyze: current, the feed the run in progress loaded
    aiCall,        \* the generateClaudeAnalysis promises: one awaited, some abandoned
    now,           \* the local clock, in hours since a Monday 00:00
    lastAuto,      \* localStorage: the day and ISO week markers of the scheduler
    running,       \* startAutoScheduler: the _running flag of the page's scheduler
    onTrigger,     \* the onTrigger promise of the page: none, pending, late, done, failed
    triggered,     \* the clock values at which onTrigger has been invoked
    tz             \* hours the local clock is ahead of UTC

\* the state of the page component
pageVars == <<displayed, shownDiff, performance, isAnalyzing, pc, currentFeed, aiCall>>

\* the state of the scheduler, the clock and its markers
schedVars == <<now, lastAuto, running, onTrigger, triggered, tz>>

vars == <<assets, riskLevel, targetReturn, hasClaudeKey, reply, ret, snapshots, saveLog,
          prevRecs, snap, analysis, prices, pageVars, schedVars>>

----------------------------------------------------------------------------
\* JavaScript numbers

NaN == -1000000

IsNaN(x) == x = NaN

\* the value null
Null == -2000000

\* JSON.stringify writes NaN as null
jsonNumber(x) == IF IsNaN(x) THEN Null ELSE x

\* null as an operand of - is 0
toNumber(x) == IF x = Null THEN 0 ELSE x

JsAdd(a, b) == IF IsNaN(a) \/ IsNaN(b) THEN NaN ELSE a + b

JsSub(a, b) == IF IsNaN(a) \/ IsNaN(b) THEN NaN ELSE a - b

\* Math.max returns NaN as soon as one argument is NaN
JsMax(a, b) == IF IsNaN(a) \/ IsNaN(b) THEN NaN ELSE IF a >= b THEN a ELSE b

\* Math.round(num / den): NaN for 0/0, else floor(num/den + 1/2)
JsRoundDiv(num, den) ==
    IF IsNaN(num) \/ IsNaN(den) \/ den = 0 THEN NaN
    ELSE (2 * num + den) \div (2 * den)

Abs(x) == IF x < 0 THEN -x ELSE x

Min(a, b) == IF a <= b THEN a ELSE b

RECURSIVE SumOver(_, _)
\* Array.reduce((s, x) => s + f(x), 0) over the sequence of numbers s
SumOver(s, n) == IF n = 0 THEN 0 ELSE JsAdd(SumOver(s, n - 1), s[n])

Sum(s) == SumOver(s, Len(s))

----------------------------------------------------------------------------
\* The asset feed

RiskLevels == {"low", "medium", "high"}

\* the target the input panel starts with
DefaultTarget == 2

Asset(sym, nm, ty, cat, pr, chg) ==
    [symbol |-> sym, name |-> nm, type |-> ty, category |-> cat,
     price |-> pr, weeklyChangePct |-> chg]

\* The instruments a feed is drawn from.  It has every pool of the engine,
\* instruments that no blueprint of some risk level uses (an index, the ETF
\* and the US stocks), one that is in two pools (a crypto ETF), a symbol
\* quoted twice (GOLD), losers, ties and a quote that came back without a
\* price (parseFloat('0')).
Universe ==
    << Asset("THYAO", "Turk Hava Yollari", "stock",     "bist",      10,  3),
       Asset("GARAN", "Garanti",           "stock",     "bist",       0,  1),
       Asset("AAPL",  "Apple",             "stock",     "us_stock",  20,  2),
       Asset("SPY",   "SPDR S&P 500 ETF",  "etf",       "us_stock",  30,  1),
       Asset("TEF1",  "Fon 1",             "fund",      "tefas",      2,  1),
       Asset("TEF2",  "Fon 2",             "fund",      "tefas",      3,  2),
       Asset("BTC",   "Bitcoin",           "crypto",    "crypto",   100,  5),
       Asset("BITO",  "Bitcoin ETF",       "etf",       "crypto",    40,  4),
       Asset("GOLD",  "Altin",             "commodity", "commodity", 50, -1),
       Asset("GOLD",  "Gram Altin TRY",    "forex",     "forex",     60,  2),
       Asset("US10Y", "ABD 10Y Treasury",  "bond",      "bond",       4,  0),
       Asset("XU100", "BIST 100",          "index",     "bist",      70,  4),
       Asset("XBANK", "BIST Banka",        "index",     "bist",      90, -2) >>

RECURSIVE SubFeed(_, _)
\* the instruments of Universe[1..n] whose index is in idx, in feed order
SubFeed(idx, n) ==
    IF n = 0 THEN <<>>
    ELSE IF n \in idx THEN Append(SubFeed(idx, n - 1), Universe[n])
         ELSE SubFeed(idx, n - 1)

Reverse(s) == [i \in 1..Len(s) |-> s[Len(s) + 1 - i]]

Feeds ==
    { SubFeed(idx, Len(Universe)) : idx \in SUBSET (1..Len(Universe)) }
    \cup { Reverse(SubFeed(idx, Len(Universe))) : idx \in SUBSET (1..Len(Universe)) }


----------------------------------------------------------------------------
\* generateAnalysis: the rule-based engine

RECURSIVE FilterPrefix(_, _, _)
\* the elements of s[1..n] that are in keep, in order
FilterPrefix(s, keep, n) ==
    IF n = 0 THEN <<>>
    ELSE IF s[n] \in keep THEN Append(FilterPrefix(s, keep, n - 1), s[n])
         ELSE FilterPrefix(s, keep, n - 1)

Range(s) == {s[i] : i \in 1..Len(s)}

RECURSIVE InsertByChange(_, _)
\* put a behind every element of the sorted s that byChange does not rank after it
InsertByChange(s, a) ==
    IF s = <<>> THEN <<a>>
    ELSE IF s[Len(s)].weeklyChangePct >= a.weeklyChangePct THEN Append(s, a)
         ELSE Append(InsertByChange(SubSeq(s, 1, Len(s) - 1), a), s[Len(s)])

RECURSIVE SortPrefix(_, _)
SortPrefix(s, n) == IF n = 0 THEN <<>> ELSE InsertByChange(SortPrefix(s, n - 1), s[n])

\* [...s].sort(byChange): descending by weeklyChangePct, stable
byChange(s) == SortPrefix(s, Len(s))

InBist(a)      == a.category = "bist" /\ a.type = "stock"
InUs(a)        == a.category = "us_stock" /\ a.type = "stock"
InEtf(a)       == a.type = "etf"
InTefas(a)     == a.category = "tefas"
InCrypto(a)    == a.category = "crypto"
InCommodity(a) == a.category = "commodity"
InBond(a)      == a.category = "bond" \/ a.category = "forex"

Pool(label, as) ==
    CASE label = "bist"      -> byChange(FilterPrefix(as, {a \in Range(as) : InBist(a)}, Len(as)))
      [] label = "us"        -> byChange(FilterPrefix(as, {a \in Range(as) : InUs(a)}, Len(as)))
      [] label = "etf"       -> byChange(FilterPrefix(as, {a \in Range(as) : InEtf(a)}, Len(as)))
      [] label = "tefas"     -> byChange(FilterPrefix(as, {a \in Range(as) : InTefas(a)}, Len(as)))
      [] label = "crypto"    -> byChange(FilterPrefix(as, {a \in Range(as) : InCrypto(a)}, Len(as)))
      [] label = "commodity" -> byChange(FilterPrefix(as, {a \in Range(as) : InCommodity(a)}, Len(as)))
      [] label = "bond"      -> byChange(FilterPrefix(as, {a \in Range(as) : InBond(a)}, Len(as)))

IsGainer(a) == a.weeklyChangePct > 0
IsLoser(a)  == a.weeklyChangePct < 0

Slot(l, c, p) == [label |-> l, count |-> c, pct |-> p]

slots(risk) ==
    CASE risk = "low" ->
           << Slot("tefas", 2, 30), Slot("bond", 1, 20), Slot("commodity", 1, 20),
              Slot("bist", 1, 15), Slot("etf", 1, 10), Slot("crypto", 1, 5) >>
      [] risk = "medium" ->
           << Slot("bist", 2, 25), Slot("us", 1, 20), Slot("tefas", 1, 20),
              Slot("crypto", 1, 15), Slot("commodity", 1, 10), Slot("bond", 1, 10) >>
      [] OTHER ->
           << Slot("bist", 2, 30), Slot("us", 2, 25), Slot("crypto", 2, 25),
              Slot("commodity", 1, 10), Slot("tefas", 1, 5), Slot("bond", 1, 5) >>

\* slot weights are kept in 1/PctScale percent: a slot has 1 or 2 picks
PctScale == 2

RECURSIVE pickFrom_IgnoresSeen(_, _, _, _, _)
\* pick as it would be without the check of the used symbols
pickFrom_IgnoresSeen(pool, i, maxCount, result, seen) ==
    IF i > Len(pool) \/ Len(result) >= maxCount
    THEN [result |-> result, seen |-> seen]
    ELSE pickFrom_IgnoresSeen(pool, i + 1, maxCount, Append(result, pool[i]),
                              seen \cup {pool[i].symbol})

RECURSIVE pickFrom(_, _, _, _, _)
\* the loop of pick over pool[i..]: result so far and the used symbols
pickFrom(pool, i, maxCount, result, seen) ==
    IF i > Len(pool) \/ Len(result) >= maxCount
    THEN [result |-> result, seen |-> seen]
    ELSE IF pool[i].symbol \notin seen
         THEN pickFrom(pool, i + 1, maxCount, Append(result, pool[i]), seen \cup {pool[i].symbol})
         ELSE pickFrom(pool, i + 1, maxCount, result, seen)

pick(pool, maxCount, seen) == pickFrom(pool, 1, maxCount, <<>>, seen)

RECURSIVE slotPicks(_, _, _)
\* the for loop over slots[1..n]: weightedPicks and usedSymbols after it
slotPicks(as, sl, n) ==
    IF n = 0 THEN [picks |-> <<>>, seen |-> {}]
    ELSE LET before == slotPicks(as, sl, n - 1)
             chosen == pick(Pool(sl[n].label, as), sl[n].count, before.seen)
             perAsset == IF Len(chosen.result) = 0 THEN 0
                         ELSE (sl[n].pct * PctScale) \div Len(chosen.result)
         IN [picks |-> before.picks \o
                       [i \in 1..Len(chosen.result) |->
                          [asset |-> chosen.result[i], pct |-> perAsset, label |-> sl[n].label]],
             seen |-> chosen.seen]

\* weightedPicks after the fewer-than-3-picks gainer fallback
weightedPicks(as, risk) ==
    LET fromSlots == slotPicks(as, slots(risk), Len(slots(risk)))
        gainers == FilterPrefix(byChange(as), {a \in Range(as) : IsGainer(a)}, Len(as))
    IN IF Len(fromSlots.picks) < 3
       THEN LET extras == pick(gainers, 6 - Len(fromSlots.picks), fromSlots.seen).result
            IN fromSlots.picks \o
               [i \in 1..Len(extras) |-> [asset |-> extras[i], pct |-> 0, label |-> "us"]]
       ELSE fromSlots.picks

\* the allocation of every pick: rounded share, the last one the remainder
normalised(wp) ==
    LET totalRaw == Sum([i \in 1..Len(wp) |-> wp[i].pct])
        rounded == [i \in 1..Len(wp) |->
                      IF i < Len(wp) THEN JsRoundDiv(wp[i].pct * 100, totalRaw) ELSE 0]
        allocated == Sum([i \in 1..Len(wp) |-> IF i < Len(wp) THEN rounded[i] ELSE 0])
    IN [i \in 1..Len(wp) |->
          IF i = Len(wp) THEN JsMax(1, JsSub(100, allocated)) ELSE rounded[i]]

recommendationsOf(as, risk) ==
    LET wp == weightedPicks(as, risk)
        alloc == normalised(wp)
    IN [i \in 1..Len(wp) |->
          [symbol |-> wp[i].asset.symbol, name |-> wp[i].asset.name,
           allocation |-> alloc[i],
           rationale |-> <<wp[i].label, wp[i].asset.weeklyChangePct>>]]

Returned(v) == [kind |-> "return", value |-> v, error |-> "none"]
Thrown(e)   == [kind |-> "throw", value |-> <<>>, error |-> e]
NoCall      == [kind |-> "none", value |-> <<>>, error |-> "none"]

\* no diff computed yet (the portfolioDiff state is null)
NoDiff == [diffs |-> <<>>, hasChanges |-> FALSE, newSymbols |-> <<>>,
           removedSymbols |-> <<>>, changedSymbols |-> <<>>, isNull |-> TRUE]

\* no performance computed (the performance state is null)
NoPerformance == [metrics |-> <<>>, totalPnL |-> 0, hasCurrentPrices |-> FALSE, isNull |-> TRUE]

\* no generateClaudeAnalysis promise is awaited and none was abandoned unsettled
NoAiCall == [awaited |-> FALSE, abandoned |-> 0]

\* the page with nothing displayed and no run of handleAnalyze in progress
PageIdle ==
    /\ displayed = NoCall
    /\ shownDiff = NoDiff
    /\ performance = NoPerformance
    /\ isAnalyzing = FALSE
    /\ pc = "idle"
    /\ currentFeed = <<>>
    /\ aiCall = NoAiCall

\* no marker written
NoMarks == [day |-> -100, week |-> -100]

\* no scheduler started, the clock at its origin
SchedulerOff ==
    /\ now = 0
    /\ lastAuto = NoMarks
    /\ running = FALSE
    /\ onTrigger = "none"
    /\ triggered = <<>>
    /\ tz = 0

\* generateAnalysis(assets, targetReturn, riskLevel).  The summary text reads
\* sorted[0].symbol, which is a TypeError on an empty asset list.
generateAnalysis(as, target, risk) ==
    IF Len(as) = 0 THEN Thrown("TypeError")
    ELSE LET sorted == byChange(as)
             recs == recommendationsOf(as, risk)
             nGainers == Len(FilterPrefix(sorted, {a \in Range(as) : IsGainer(a)}, Len(sorted)))
             nLosers == Len(FilterPrefix(sorted, {a \in Range(as) : IsLoser(a)}, Len(sorted)))
         IN Returned(
              [summary |-> [tone |-> IF nGainers > nLosers THEN "pozitif" ELSE "karisik",
                            gainers |-> nGainers, losers |-> nLosers,
                            best |-> sorted[1].symbol, worst |-> sorted[Len(sorted)].symbol,
                            risk |-> risk, target |-> target],
               recommendations |-> recs,
               riskNote |-> risk,
               whyNow |-> "absent", risks |-> "absent", opportunities |-> "absent",
               isAiGenerated |-> FALSE])

----------------------------------------------------------------------------
\* generateClaudeAnalysis: the AI-augmented engine

\* values a recommendation of the model's answer may carry
AiSymbols == {"BTC", "AAPL"}
AllocVals == {0, 1, 7, 50, 51}
MaxRecs == 3

AiRec(sym, al) == [symbol |-> sym, name |-> sym, allocation |-> al, rationale |-> <<"ai", 0>>]

AiRecLists ==
    UNION { [1..n -> {AiRec(sym, al) : sym \in AiSymbols, al \in AllocVals}] : n \in 0..MaxRecs }

\* the JSON object in content[0].text: summary '' stands for a missing one,
\* isArray = FALSE for a recommendations field that is not an array
Parsed(sum, isArr, recs, narr) ==
    [summary |-> sum, isArray |-> isArr, recommendations |-> recs,
     riskNote |-> narr, whyNow |-> narr, risks |-> narr, opportunities |-> narr]

NoBody == Parsed("", FALSE, <<>>, "absent")

\* no call of the proxy was made
NoReply == [status |-> -1, text |-> "nobody", parsed |-> NoBody]

\* status 0: fetch rejected (network error).  text: "nobody" the HTTP body is
\* not JSON, "nojson" no {...} in the text, "badjson" JSON.parse throws
Replies ==
    { [status |-> st, text |-> "nobody", parsed |-> NoBody] : st \in {0, 401, 429, 500} }
    \cup { [status |-> 200, text |-> tx, parsed |-> NoBody] : tx \in {"nobody", "nojson", "badjson"} }
    \cup { [status |-> 200, text |-> "json", parsed |-> Parsed("ozet", TRUE, recs, narr)] :
              recs \in AiRecLists, narr \in {"absent", "metin"} }
    \cup { [status |-> 200, text |-> "json", parsed |-> Parsed("", TRUE, recs, "metin")] :
              recs \in {r \in AiRecLists : Len(r) <= 1} }
    \cup { [status |-> 200, text |-> "json", parsed |-> Parsed("ozet", FALSE, <<>>, "metin")] }

\* lines 190-200: rescale when the sum is more than 5 away from 100
rescale(recs) ==
    LET totalAlloc == Sum([i \in 1..Len(recs) |-> recs[i].allocation])
        scaled == [i \in 1..Len(recs) |-> JsRoundDiv(recs[i].allocation * 100, totalAlloc)]
    IN IF Abs(totalAlloc - 100) > 5
       THEN [i \in 1..Len(recs) |->
               [recs[i] EXCEPT !.allocation =
                  IF i = Len(recs) THEN JsSub(100, Sum(SubSeq(scaled, 1, Len(recs) - 1)))
                  ELSE scaled[i]]]
       ELSE recs

\* the try block: the error it throws, or "none"
tryError(rp) ==
    CASE rp.status = 0 -> "NetworkError"
      [] rp.status = 401 -> "CLAUDE_KEY_INVALID"
      [] rp.status = 429 -> "CLAUDE_RATE_LIMIT"
      [] rp.status # 200 -> "Claude API error"
      [] rp.text = "nobody" -> "SyntaxError"
      [] rp.text = "nojson" -> "CLAUDE_INVALID_JSON"
      [] rp.text = "badjson" -> "SyntaxError"
      [] rp.parsed.summary = "" \/ ~rp.parsed.isArray \/ Len(rp.parsed.recommendations) = 0
           -> "CLAUDE_INCOMPLETE_RESPONSE"
      [] OTHER -> "none"

\* the catch block as it would be if only the credential error were re-thrown
rethrown_OnlyKey(msg) == msg = "CLAUDE_KEY_INVALID"

\* the catch block: known errors are re-thrown
rethrown(msg) == msg = "CLAUDE_KEY_INVALID" \/ msg = "CLAUDE_RATE_LIMIT"

generateClaudeAnalysis(as, target, risk, hasKey, rp) ==
    LET msg == IF hasKey THEN tryError(rp) ELSE "no key"
    IN IF msg = "none"
       THEN Returned(
              [summary |-> [text |-> rp.parsed.summary],
               recommendations |-> rescale(rp.parsed.recommendations),
               riskNote |-> IF rp.parsed.riskNote = "absent" THEN "" ELSE rp.parsed.riskNote,
               whyNow |-> rp.parsed.whyNow, risks |-> rp.parsed.risks,
               opportunities |-> rp.parsed.opportunities,
               isAiGenerated |-> TRUE])
       ELSE IF hasKey /\ rethrown(msg) THEN Thrown(msg)
       ELSE generateAnalysis(as, target, risk)

----------------------------------------------------------------------------
\* snapshotService: the bounded snapshot history in localStorage

MAX_SNAPSHOTS == 10

\* the value under a localStorage key: "missing" (no item), "garbage"
\* (JSON.parse throws), "list" (a JSON array), or JSON that is not an array:
\* "null", "string" (a non-empty string) or "object" (an object, number or
\* boolean: a value without length, push and map)
Stored(k, l) == [kind |-> k, list |-> l]

NotListKinds == {"null", "string", "object"}

EmptyStore == Stored("missing", <<>>)

\* loadRaw of a value that is missing, unparsable or an array
loadRaw(st) == IF st.kind = "list" THEN st.list ELSE <<>>

\* no snapshot in hand (loadLastSnapshot's null)
NoSnapshot == [id |-> 0, recommendations |-> <<>>, targetReturn |-> 0,
               riskLevel |-> "none", dataSource |-> "none"]

\* loadLastSnapshot: the last element of what loadRaw returns, null when its
\* length is not above 0; null has no length, a string has a last character
loadLastSnapshot(st) ==
    CASE st.kind = "null"   -> Thrown("TypeError")
      [] st.kind = "string" -> Returned([char |-> "?"])
      [] st.kind = "list" /\ Len(st.list) > 0 -> Returned(st.list[Len(st.list)])
      [] OTHER -> Returned(NoSnapshot)

\* Array.slice(-n)
SliceLast(s, n) == IF Len(s) <= n THEN s ELSE SubSeq(s, Len(s) - n + 1, Len(s))

\* saveSnapshot as it would be with slice(0, MAX_SNAPSHOTS): keeps the oldest
saveSnapshot_KeepsOldest(st, snapshot) ==
    IF st.kind \in NotListKinds
    THEN [store |-> st, out |-> Thrown("TypeError")]
    ELSE [store |-> Stored("list", SubSeq(Append(loadRaw(st), snapshot), 1,
                                          Min(Len(loadRaw(st)) + 1, MAX_SNAPSHOTS))),
          out |-> Returned(<<>>)]

\* saveSnapshot: the stored value after the call and how the call ended;
\* push on a parsed value that is not an array is a TypeError
saveSnapshot(st, snapshot) ==
    IF st.kind \in NotListKinds
    THEN [store |-> st, out |-> Thrown("TypeError")]
    ELSE [store |-> Stored("list", SliceLast(Append(loadRaw(st), snapshot), MAX_SNAPSHOTS)),
          out |-> Returned(<<>>)]

----------------------------------------------------------------------------
\* snapshotService: building a snapshot from a completed analysis

\* new Map(list.map(x => [x.symbol, x])).has(sym)
MapHas(list, sym) == \E i \in 1..Len(list) : list[i].symbol = sym

\* new Map(list.map(x => [x.symbol, x])).get(sym), for a symbol the map has:
\* a later entry of the list replaces the value of an earlier one
MapGet(list, sym) ==
    list[CHOOSE i \in 1..Len(list) :
            /\ list[i].symbol = sym
            /\ \A j \in (i + 1)..Len(list) : list[j].symbol # sym]

\* the line of a snapshot for one recommendation: asset?.price ?? 0
SnapshotRecommendation(rec, as) ==
    [symbol |-> rec.symbol, name |-> rec.name, allocation |-> rec.allocation,
     priceAtRecommendation |-> IF MapHas(as, rec.symbol) THEN MapGet(as, rec.symbol).price
                                                        ELSE 0]

\* the .map of buildSnapshotFromAnalysis without its .filter
buildSnapshotFromAnalysis_ZeroFills(result, as, target, risk, dataSource) ==
    [id |-> 1,
     recommendations |-> [i \in 1..Len(result.recommendations) |->
                             SnapshotRecommendation(result.recommendations[i], as)],
     targetReturn |-> target, riskLevel |-> risk, dataSource |-> dataSource]

\* id is Date.now(); no operation of the model reads it
buildSnapshotFromAnalysis(result, as, target, risk, dataSource) ==
    LET mapped == [i \in 1..Len(result.recommendations) |->
                     SnapshotRecommendation(result.recommendations[i], as)]
    IN [id |-> 1,
        recommendations |-> FilterPrefix(mapped,
                               {r \in Range(mapped) : r.priceAtRecommendation > 0},
                               Len(mapped)),
        targetReturn |-> target, riskLevel |-> risk, dataSource |-> dataSource]

----------------------------------------------------------------------------
\* autoScheduler: the diff of a new snapshot against the previous recommendations

CHANGE_THRESHOLD == 3

\* -x
JsNeg(x) == IF IsNaN(x) THEN NaN ELSE -x

\* loadPrevRecommendations: what JSON.parse gives when it is an array, [] for
\* a missing or unparsable item
loadPrevRecommendations(st) == IF st.kind = "list" THEN st.list ELSE <<>>

RECURSIVE MapKeysPrefix(_, _)
\* the keys of new Map(list.map(r => [r.symbol, r])) in iteration order: a
\* symbol keeps the position of its first line
MapKeysPrefix(list, n) ==
    IF n = 0 THEN <<>>
    ELSE LET keys == MapKeysPrefix(list, n - 1)
         IN IF \E i \in 1..Len(keys) : keys[i] = list[n].symbol
            THEN keys ELSE Append(keys, list[n].symbol)

MapKeys(list) == MapKeysPrefix(list, Len(list))

\* Math.abs(delta) >= 3 with the comparison one off
isChanged_Above(delta) == ~IsNaN(delta) /\ Abs(delta) > CHANGE_THRESHOLD

\* Math.abs(delta) >= 3; false for NaN
isChanged(delta) == ~IsNaN(delta) /\ Abs(delta) >= CHANGE_THRESHOLD

\* the diff pushed for one symbol of newMap
newOrHold(symbol, newList, prevList) ==
    LET rec == MapGet(newList, symbol)
    IN IF ~MapHas(prevList, symbol)
       THEN [symbol |-> symbol, name |-> rec.name, allocation |-> rec.allocation,
             action |-> "NEW"]
       ELSE [symbol |-> symbol, name |-> rec.name, allocation |-> rec.allocation,
             prevAllocation |-> MapGet(prevList, symbol).allocation,
             allocationDelta |-> JsSub(rec.allocation,
                                       toNumber(MapGet(prevList, symbol).allocation)),
             action |-> "HOLD"]

\* the first loop: one diff per symbol of newMap
newDiffs(newList, prevList) ==
    [i \in 1..Len(MapKeys(newList)) |-> newOrHold(MapKeys(newList)[i], newList, prevList)]

\* the second loop without its newMap.has test: a SELL for every previous symbol
sellDiffs_EveryPrev(newList, prevList) ==
    [i \in 1..Len(MapKeys(prevList)) |->
        LET prev == MapGet(prevList, MapKeys(prevList)[i])
        IN [symbol |-> prev.symbol, name |-> prev.name, allocation |-> 0,
            prevAllocation |-> prev.allocation,
            allocationDelta |-> JsNeg(toNumber(prev.allocation)), action |-> "SELL"]]

\* the second loop: a SELL for every symbol of prevMap that newMap lacks
sellDiffs(newList, prevList) ==
    LET gone == FilterPrefix(MapKeys(prevList),
                             {k \in Range(MapKeys(prevList)) : ~MapHas(newList, k)},
                             Len(MapKeys(prevList)))
    IN [i \in 1..Len(gone) |->
          LET prev == MapGet(prevList, gone[i])
          IN [symbol |-> prev.symbol, name |-> prev.name, allocation |-> 0,
              prevAllocation |-> prev.allocation,
              allocationDelta |-> JsNeg(toNumber(prev.allocation)), action |-> "SELL"]]

\* the order table with HOLD ranked like NEW
actionOrder_HoldFirst(action) ==
    CASE action = "NEW" -> 0 [] action = "HOLD" -> 0 [] action = "BUY" -> 0 [] action = "SELL" -> 2

\* order: { NEW: 0, HOLD: 1, BUY: 0, SELL: 2 }
actionOrder(action) ==
    CASE action = "NEW" -> 0 [] action = "HOLD" -> 1 [] action = "BUY" -> 0 [] action = "SELL" -> 2

RECURSIVE InsertByAction(_, _)
\* put d behind every element of the sorted s that the comparator does not rank after it
InsertByAction(s, d) ==
    IF s = <<>> THEN <<d>>
    ELSE IF actionOrder(s[Len(s)].action) <= actionOrder(d.action) THEN Append(s, d)
         ELSE Append(InsertByAction(SubSeq(s, 1, Len(s) - 1), d), s[Len(s)])

RECURSIVE SortDiffsPrefix(_, _)
SortDiffsPrefix(s, n) == IF n = 0 THEN <<>> ELSE InsertByAction(SortDiffsPrefix(s, n - 1), s[n])

\* diffs.sort((a, b) => order[a.action] - order[b.action]), stable
sortDiffs(s) == SortDiffsPrefix(s, Len(s))

\* the symbols of the diffs with the action, in the order they were pushed
symbolsOf(ds, keep) ==
    LET kept == FilterPrefix(ds, keep, Len(ds))
    IN [i \in 1..Len(kept) |-> kept[i].symbol]

\* the PortfolioDiff of a new list of lines against a previous one
portfolioDiff(newList, prevList) ==
    LET pushed == newDiffs(newList, prevList) \o sellDiffs(newList, prevList)
        newSymbols == symbolsOf(pushed, {d \in Range(pushed) : d.action = "NEW"})
        removedSymbols == symbolsOf(pushed, {d \in Range(pushed) : d.action = "SELL"})
        changedSymbols == symbolsOf(pushed, {d \in Range(pushed) :
                                        d.action = "HOLD" /\ isChanged(d.allocationDelta)})
    IN [diffs |-> sortDiffs(pushed),
        hasChanges |-> Len(newSymbols) > 0 \/ Len(removedSymbols) > 0 \/ Len(changedSymbols) > 0,
        newSymbols |-> newSymbols, removedSymbols |-> removedSymbols,
        changedSymbols |-> changedSymbols]

\* the PrevRec list of a snapshot
prevRecsOf(snapshot) ==
    [i \in 1..Len(snapshot.recommendations) |->
        [symbol |-> snapshot.recommendations[i].symbol,
         name |-> snapshot.recommendations[i].name,
         allocation |-> snapshot.recommendations[i].allocation]]

\* computePortfolioDiff that also stores the new list as the baseline
computePortfolioDiff_SavesBaseline(newSnapshot, st) ==
    IF st.kind \in NotListKinds
    THEN [store |-> st, out |-> Thrown("TypeError")]
    ELSE [store |-> Stored("list", prevRecsOf(newSnapshot)),
          out |-> Returned(portfolioDiff(newSnapshot.recommendations,
                                         loadPrevRecommendations(st)))]

\* computePortfolioDiff(newSnapshot) with the default second argument, st being
\* the value under KEY_PREV_RECS: the stored value after the call and how the
\* call ended; map on a parsed value that is not an array is a TypeError
computePortfolioDiff(newSnapshot, st) ==
    IF st.kind \in NotListKinds
    THEN [store |-> st, out |-> Thrown("TypeError")]
    ELSE [store |-> st,
          out |-> Returned(portfolioDiff(newSnapshot.recommendations,
                                         loadPrevRecommendations(st)))]

\* savePrevRecommendations: the list as JSON.stringify and JSON.parse give it back
savePrevRecommendations(recs) ==
    Stored("list", [i \in 1..Len(recs) |->
                      [recs[i] EXCEPT !.allocation = jsonNumber(recs[i].allocation)]])

\* updatePrevRecommendations: savePrevRecommendations of the snapshot's lines
updatePrevRecommendations(snapshot, st) ==
    [store |-> savePrevRecommendations(prevRecsOf(snapshot)), out |-> Returned(<<>>)]

----------------------------------------------------------------------------
\* snapshotService: the performance of a snapshot at current prices.
\* changePct and totalPnL are kept in hundredths of a percent and
\* weightedContribution in thousandths, as toFixed(2) and toFixed(3) leave
\* them; toFixed rounds the exact quotient half away from zero, which on the
\* prices and allocations of PerfLines and PerfFeeds is what it gives for the
\* IEEE doubles too.

JsMul(a, b) == IF IsNaN(a) \/ IsNaN(b) THEN NaN ELSE a * b

\* parseFloat((num / den).toFixed(d)) in units of 10^-d, num being scaled by 10^d
JsToFixedDiv(num, den) ==
    IF IsNaN(num) \/ IsNaN(den) \/ den = 0 THEN NaN
    ELSE IF num >= 0 THEN (2 * num + den) \div (2 * den)
         ELSE -((2 * (-num) + den) \div (2 * den))

\* the loop's test with only its first half: if (!current) continue
tracked_AnyEntryPrice(rec, currentAssets) == MapHas(currentAssets, rec.symbol)

\* the negation of: if (!current || rec.priceAtRecommendation === 0) continue
tracked(rec, currentAssets) ==
    MapHas(currentAssets, rec.symbol) /\ rec.priceAtRecommendation # 0

\* the metric pushed for a recommendation line and the current quote of its symbol
PerformanceMetric(rec, current) ==
    LET changePct == JsToFixedDiv((current.price - rec.priceAtRecommendation) * 10000,
                                  rec.priceAtRecommendation)
    IN [symbol |-> rec.symbol, name |-> rec.name, allocation |-> rec.allocation,
        priceAtRecommendation |-> rec.priceAtRecommendation,
        currentPrice |-> current.price,
        changePct |-> changePct,
        weightedContribution |-> JsToFixedDiv(JsMul(changePct, rec.allocation), 10)]

\* calculatePerformance; daysSince, the age of the snapshot by the clock, is
\* left out: the model has no clock and no operation reads it
calculatePerformance(snapshot, currentAssets) ==
    LET recs == snapshot.recommendations
        lines == FilterPrefix(recs, {r \in Range(recs) : tracked(r, currentAssets)}, Len(recs))
        metrics == [i \in 1..Len(lines) |->
                      PerformanceMetric(lines[i], MapGet(currentAssets, lines[i].symbol))]
    IN [snapshot |-> snapshot,
        metrics |-> metrics,
        totalPnL |-> JsToFixedDiv(Sum([i \in 1..Len(metrics) |->
                                          metrics[i].weightedContribution]), 10),
        hasCurrentPrices |-> Len(metrics) > 0]

----------------------------------------------------------------------------
\* snapshotService: Wilder's smoothed RSI of a price series.  The RSI is kept
\* in hundredths, as toFixed(2) leaves it.  An average after k smoothing
\* steps is the exact fraction N / period^(k+1); only the numerators N are
\* computed, the two averages having the same denominator.

RSI_PERIOD == 14

RECURSIVE Pow(_, _)
Pow(b, n) == IF n = 0 THEN 1 ELSE b * Pow(b, n - 1)

\* changes[i] = prices[i] - prices[i - 1]
changesOf(ps) == [i \in 1..(Len(ps) - 1) |-> ps[i + 1] - ps[i]]

\* changes[i] > 0 ? changes[i] : 0
gainsOf(ch) == [i \in 1..Len(ch) |-> IF ch[i] > 0 THEN ch[i] ELSE 0]

\* changes[i] < 0 ? Math.abs(changes[i]) : 0
lossesOf(ch) == [i \in 1..Len(ch) |-> IF ch[i] < 0 THEN -ch[i] ELSE 0]

RECURSIVE smoothed(_, _, _)
\* the numerator of the average over vals[1..n], n >= period: the sum of the
\* first period values as seed, then avg = (avg * (period - 1) + v) / period
smoothed(vals, period, n) ==
    IF n = period THEN SumOver(vals, period)
    ELSE (period - 1) * smoothed(vals, period, n - 1) + vals[n] * Pow(period, n - period)

\* the part of calculateRSI behind the length test
rsiOf(ps, period) ==
    LET ch == changesOf(ps)
        avgGain == smoothed(gainsOf(ch), period, Len(ch))
        avgLoss == smoothed(lossesOf(ch), period, Len(ch))
    IN IF avgLoss = 0 THEN 100 * 100
       ELSE JsToFixedDiv(100 * 100 * avgGain, avgGain + avgLoss)

\* calculateRSI with the test prices.length < period: on period points the
\* seed loop reads a change that does not exist and the result is NaN
calculateRSI_PeriodPoints(ps, period) ==
    IF Len(ps) < period THEN Null
    ELSE IF Len(ps) = period THEN NaN
    ELSE rsiOf(ps, period)

\* calculateRSI(prices, period): null on fewer than period + 1 points
calculateRSI(ps, period) ==
    IF Len(ps) < period + 1 THEN Null ELSE rsiOf(ps, period)

----------------------------------------------------------------------------
\* snapshotService: the technical signal of a price series.  An SMA is kept
\* in ten-thousandths, as toFixed(4) leaves it.

INSUFFICIENT_DATA == <<"Yeterli veri yok">>

\* calculateSMA(prices, period): null on fewer than period points
calculateSMA(ps, period) ==
    IF Len(ps) < period THEN Null
    ELSE JsToFixedDiv(Sum(SliceLast(ps, period)) * 10000, period)

\* signal and label part of the RSI block; no part when rsi14 is null
rsiPart(rsi14) ==
    IF rsi14 = Null THEN [signal |-> "NEUTRAL", parts |-> <<>>]
    ELSE IF rsi14 > 70 * 100 THEN [signal |-> "SELL", parts |-> <<"RSI Asiri Alim">>]
    ELSE IF rsi14 < 30 * 100 THEN [signal |-> "BUY", parts |-> <<"RSI Asiri Satim">>]
    ELSE [signal |-> "NEUTRAL", parts |-> <<"RSI Notr">>]

\* diff > 0.5, diff being ((sma7 - sma14) / sma14) * 100 and sma14 above 0
smaAbove(sma7, sma14) == 200 * (sma7 - sma14) > sma14

\* diff < -0.5
smaBelow(sma7, sma14) == 200 * (sma7 - sma14) < -sma14

\* the SMA block writing the signal whatever the RSI block left
smaPart_Overrides(before, sma7, sma14) ==
    IF sma7 = Null \/ sma14 = Null THEN before
    ELSE IF smaAbove(sma7, sma14)
         THEN [signal |-> "BUY", parts |-> Append(before.parts, "SMA7>SMA14")]
    ELSE IF smaBelow(sma7, sma14)
         THEN [signal |-> "SELL", parts |-> Append(before.parts, "SMA7<SMA14")]
    ELSE [signal |-> before.signal, parts |-> Append(before.parts, "SMA7~SMA14")]

\* the SMA block: it adds its part and sets the signal only if it is NEUTRAL
smaPart(before, sma7, sma14) ==
    IF sma7 = Null \/ sma14 = Null THEN before
    ELSE IF smaAbove(sma7, sma14)
         THEN [signal |-> IF before.signal = "NEUTRAL" THEN "BUY" ELSE before.signal,
               parts |-> Append(before.parts, "SMA7>SMA14")]
    ELSE IF smaBelow(sma7, sma14)
         THEN [signal |-> IF before.signal = "NEUTRAL" THEN "SELL" ELSE before.signal,
               parts |-> Append(before.parts, "SMA7<SMA14")]
    ELSE [signal |-> before.signal, parts |-> Append(before.parts, "SMA7~SMA14")]

\* buildTechnicalSignal(symbol, prices); the label is the list of the parts
\* that parts.join(' | ') concatenates
buildTechnicalSignal(symbol, ps) ==
    LET rsi14 == calculateRSI(ps, 14)
        sma7 == calculateSMA(ps, 7)
        sma14 == calculateSMA(ps, 14)
        decided == smaPart(rsiPart(rsi14), sma7, sma14)
    IN [symbol |-> symbol, rsi14 |-> rsi14, sma7 |-> sma7, sma14 |-> sma14,
        signal |-> decided.signal,
        label |-> IF Len(decided.parts) > 0 THEN decided.parts ELSE INSUFFICIENT_DATA]

----------------------------------------------------------------------------
\* Index.tsx, handleAnalyze: the synchronous block behind the engine's result
\* and the catch block.  Toasts, the saved copies of the analysis and of the
\* diff, and the technical and macro context (read by the AI prompt only) are
\* left out.

\* withTimeout(p, ms, fallback): Promise.race of p and the timer
withTimeout(settledInTime, value, fallback) == IF settledInTime THEN value ELSE fallback

\* perf: lastSnapshot ? calculatePerformance(lastSnapshot, current) : null
perfOf(hist, cur) ==
    IF loadLastSnapshot(hist).value = NoSnapshot THEN NoPerformance
    ELSE [metrics |-> calculatePerformance(loadLastSnapshot(hist).value, cur).metrics,
          totalPnL |-> calculatePerformance(loadLastSnapshot(hist).value, cur).totalPnL,
          hasCurrentPrices |->
              calculatePerformance(loadLastSnapshot(hist).value, cur).hasCurrentPrices,
          isNull |-> FALSE]

\* the PortfolioDiff of computePortfolioDiff as the portfolioDiff state holds it
diffState(d) ==
    [diffs |-> d.diffs, hasChanges |-> d.hasChanges, newSymbols |-> d.newSymbols,
     removedSymbols |-> d.removedSymbols, changedSymbols |-> d.changedSymbols,
     isNull |-> FALSE]

\* lines 226-228 with updatePrevRecommendations called before computePortfolioDiff
persistAndDiff_UpdatesFirst(snapshot, hist, prev) ==
    [history |-> saveSnapshot(hist, snapshot).store,
     prev |-> updatePrevRecommendations(snapshot, prev).store,
     diff |-> computePortfolioDiff(snapshot,
                                   updatePrevRecommendations(snapshot, prev).store).out,
     error |-> "none"]

\* lines 226-228 without the call of updatePrevRecommendations
persistAndDiff_NoUpdate(snapshot, hist, prev) ==
    [history |-> saveSnapshot(hist, snapshot).store, prev |-> prev,
     diff |-> computePortfolioDiff(snapshot, prev).out, error |-> "none"]

\* lines 226-228: saveSnapshot, computePortfolioDiff, updatePrevRecommendations
\* of the snapshot built at line 225; a throw of one of them ends the block
\* there
persistAndDiff(snapshot, hist, prev) ==
    IF saveSnapshot(hist, snapshot).out.kind = "throw"
    THEN [history |-> saveSnapshot(hist, snapshot).store, prev |-> prev,
          diff |-> saveSnapshot(hist, snapshot).out,
          error |-> saveSnapshot(hist, snapshot).out.error]
    ELSE IF computePortfolioDiff(snapshot, prev).out.kind = "throw"
    THEN [history |-> saveSnapshot(hist, snapshot).store,
          prev |-> computePortfolioDiff(snapshot, prev).store,
          diff |-> computePortfolioDiff(snapshot, prev).out,
          error |-> computePortfolioDiff(snapshot, prev).out.error]
    ELSE [history |-> saveSnapshot(hist, snapshot).store,
          prev |-> updatePrevRecommendations(snapshot,
                                             computePortfolioDiff(snapshot, prev).store).store,
          diff |-> computePortfolioDiff(snapshot, prev).out,
          error |-> "none"]

\* the catch block if it saved a snapshot of the fallback it displays
caught_PersistsFallback(src, target, risk, hist, prev, shown) ==
    IF Len(src) > 0
    THEN [history |-> saveSnapshot(hist,
                         buildSnapshotFromAnalysis(generateAnalysis(src, target, risk).value,
                                                   src, target, risk, "live")).store,
          prev |-> prev, displayed |-> generateAnalysis(src, target, risk)]
    ELSE [history |-> hist, prev |-> prev, displayed |-> shown]

\* the catch block: with assets at hand their rule-based analysis is displayed,
\* nothing is stored.  src is freshAssets or assets as the page held them
\* when the run began
caught(src, target, risk, hist, prev, shown) ==
    [history |-> hist, prev |-> prev,
     displayed |-> IF Len(src) > 0 THEN generateAnalysis(src, target, risk) ELSE shown]

\* the displayed analysis if the settlement of an abandoned AI call were shown
lateSettlement_Shown(shown, outcome) == IF outcome.kind = "return" THEN outcome ELSE shown

\* the displayed analysis after an abandoned AI call settles: nothing awaits it
lateSettlement(shown, outcome) == shown

----------------------------------------------------------------------------
\* autoScheduler: the weekly trigger.  A clock value t counts local hours
\* since a Monday 00:00; dates are day numbers and ISO weeks week numbers
\* counted from that Monday.

HoursPerDay == 24
DaysPerWeek == 7
TRIGGER_HOUR == 9

\* Date.getDay() === 0: the seventh day of the week that starts on Monday
isSunday(t) == (t \div HoursPerDay) % DaysPerWeek = DaysPerWeek - 1

\* Date.getHours()
getHours(t) == t % HoursPerDay

\* todayStr: the date of toISOString, which is the UTC date
todayStr(t, offset) == (t - offset) \div HoursPerDay

\* isoWeekStr: the ISO week of the local date
isoWeekStr(t) == t \div (HoursPerDay * DaysPerWeek)

\* shouldTrigger: Sunday, 09:00 or later, neither this week's nor this day's
\* marker stored
shouldTrigger(t, offset, marks) ==
    /\ isSunday(t)
    /\ getHours(t) >= TRIGGER_HOUR
    /\ marks.week # isoWeekStr(t)
    /\ marks.day # todayStr(t, offset)

\* markAutoAnalyzedToday: the markers it stores
markAutoAnalyzedToday(t, offset) == [day |-> todayStr(t, offset), week |-> isoWeekStr(t)]

\* check if it left the markers to the end of a successful onTrigger
marksAtTrigger_None(t, offset, marks) == marks

\* check, line 251: the markers are stored before onTrigger is called
marksAtTrigger(t, offset, marks) == markAutoAnalyzedToday(t, offset)

----------------------------------------------------------------------------
\* Specification of the snapshot history: saves into an empty store

MaxSaves == 12

DataSources == {"live", "mock"}

\* a snapshot as saveSnapshot gets it; Date.now() is the number of the save
Snapshot(n, src) ==
    [id |-> n, recommendations |-> <<>>, targetReturn |-> DefaultTarget,
     riskLevel |-> "medium", dataSource |-> src]

InitStore ==
    /\ assets = <<>>
    /\ riskLevel = "medium"
    /\ targetReturn = DefaultTarget
    /\ hasClaudeKey = FALSE
    /\ reply = NoReply
    /\ ret = [op |-> "none", out |-> NoCall]
    /\ snapshots = EmptyStore
    /\ saveLog = <<>>
    /\ prevRecs = EmptyStore
    /\ snap = NoSnapshot
    /\ analysis = NoCall
    /\ prices = <<>>
    /\ PageIdle
    /\ SchedulerOff

CallSaveSnapshot ==
    \E src \in DataSources :
        LET snapshot == Snapshot(Len(saveLog) + 1, src)
            saved == saveSnapshot(snapshots, snapshot)
        IN /\ Len(saveLog) < MaxSaves
           /\ snapshots' = saved.store
           /\ saveLog' = Append(saveLog, snapshot)
           /\ ret' = [op |-> "saveSnapshot", out |-> saved.out]
           /\ UNCHANGED <<assets, riskLevel, targetReturn, hasClaudeKey, reply,
                          prevRecs, snap, analysis, prices, pageVars, schedVars>>

NextStore == CallSaveSnapshot

SpecStore == InitStore /\ [][NextStore]_vars

----------------------------------------------------------------------------
\* Specification of the rule-based engine: any feed, any risk level

InitRule ==
    /\ assets \in Feeds
    /\ riskLevel \in RiskLevels
    /\ targetReturn = DefaultTarget
    /\ hasClaudeKey = FALSE
    /\ reply = NoReply
    /\ ret = [op |-> "none", out |-> NoCall]
    /\ snapshots = EmptyStore
    /\ saveLog = <<>>
    /\ prevRecs = EmptyStore
    /\ snap = NoSnapshot
    /\ analysis = NoCall
    /\ prices = <<>>
    /\ PageIdle
    /\ SchedulerOff

\* one call of generateAnalysis on the drawn inputs
CallGenerateAnalysis ==
    /\ ret.op = "none"
    /\ ret' = [op |-> "generateAnalysis", out |-> generateAnalysis(assets, targetReturn, riskLevel)]
    /\ UNCHANGED <<assets, riskLevel, targetReturn, hasClaudeKey, reply, snapshots, saveLog,
                   prevRecs, snap, analysis, prices, pageVars, schedVars>>

NextRule == CallGenerateAnalysis

SpecRule == InitRule /\ [][NextRule]_vars

----------------------------------------------------------------------------
\* Specification of the AI-augmented engine: a few feeds, any proxy answer

ClaudeFeeds == { <<>>, SubFeed({13}, Len(Universe)), SubFeed({1, 5, 7, 12}, Len(Universe)) }

InitClaude ==
    /\ assets \in ClaudeFeeds
    /\ riskLevel \in RiskLevels
    /\ targetReturn = DefaultTarget
    /\ hasClaudeKey \in BOOLEAN
    /\ reply = NoReply
    /\ ret = [op |-> "none", out |-> NoCall]
    /\ snapshots = EmptyStore
    /\ saveLog = <<>>
    /\ prevRecs = EmptyStore
    /\ snap = NoSnapshot
    /\ analysis = NoCall
    /\ prices = <<>>
    /\ PageIdle
    /\ SchedulerOff

\* one call of generateClaudeAnalysis; the proxy answers with any reply
CallGenerateClaudeAnalysis ==
    /\ ret.op = "none"
    /\ \E rp \in (IF hasClaudeKey THEN Replies ELSE {NoReply}) :
          /\ reply' = rp
          /\ ret' = [op |-> "generateClaudeAnalysis",
                     out |-> generateClaudeAnalysis(assets, targetReturn, riskLevel, hasClaudeKey, rp)]
    /\ UNCHANGED <<assets, riskLevel, targetReturn, hasClaudeKey, snapshots, saveLog,
                   prevRecs, snap, analysis, prices, pageVars, schedVars>>

NextClaude == CallGenerateClaudeAnalysis \/ CallGenerateAnalysis

SpecClaude == InitClaude /\ [][NextClaude]_vars

----------------------------------------------------------------------------
\* Specification of the snapshot of a run: an engine returns an analysis and
\* the snapshot is built from it and the feed the engine was given

SnapFeeds ==
    ClaudeFeeds \cup { SubFeed({1, 2, 7}, Len(Universe)),
                       Reverse(SubFeed({2, 3, 9, 10}, Len(Universe))) }

InitSnap ==
    /\ assets \in SnapFeeds
    /\ riskLevel \in RiskLevels
    /\ targetReturn = DefaultTarget
    /\ hasClaudeKey \in BOOLEAN
    /\ reply = NoReply
    /\ ret = [op |-> "none", out |-> NoCall]
    /\ snapshots = EmptyStore
    /\ saveLog = <<>>
    /\ prevRecs = EmptyStore
    /\ snap = NoSnapshot
    /\ analysis = NoCall
    /\ prices = <<>>
    /\ PageIdle
    /\ SchedulerOff

\* Index.tsx, handleAnalyze: the snapshot of the result an engine returned
CallBuildSnapshotFromAnalysis ==
    /\ ret.op \in {"generateAnalysis", "generateClaudeAnalysis"}
    /\ ret.out.kind = "return"
    /\ \E src \in DataSources :
          LET built == buildSnapshotFromAnalysis(ret.out.value, assets, targetReturn,
                                                 riskLevel, src)
          IN /\ snap' = built
             /\ analysis' = ret.out
             /\ ret' = [op |-> "buildSnapshotFromAnalysis", out |-> Returned(built)]
    /\ UNCHANGED <<assets, riskLevel, targetReturn, hasClaudeKey, reply, snapshots, saveLog,
                   prevRecs, prices, pageVars, schedVars>>

NextSnap == CallGenerateClaudeAnalysis \/ CallBuildSnapshotFromAnalysis

SpecSnap == InitSnap /\ [][NextSnap]_vars

----------------------------------------------------------------------------
\* Specification of the diff: a snapshot against any stored previous list

MaxDiffLen == 2

DiffSymbols == {"THYAO", "AAPL", "BTC"}
NewAllocs == {10, 13}
PrevAllocs == {10, 12, 13}

\* the sequences over S of at most n elements
ListsOf(S, n) == UNION { [1..k -> S] : k \in 0..n }

NewLines ==
    { [symbol |-> sym, name |-> sym, allocation |-> al, priceAtRecommendation |-> 1] :
        sym \in DiffSymbols, al \in NewAllocs }

PrevLines == { [symbol |-> sym, name |-> sym, allocation |-> al] :
                 sym \in DiffSymbols, al \in PrevAllocs }

DiffSnapshots ==
    { [id |-> 1, recommendations |-> l, targetReturn |-> DefaultTarget,
       riskLevel |-> "medium", dataSource |-> "live"] : l \in ListsOf(NewLines, MaxDiffLen) }

\* what the key may hold without being a list
CorruptValues == { Stored(k, <<>>) : k \in {"missing", "garbage"} \cup NotListKinds }

PrevStores == CorruptValues \cup { Stored("list", l) : l \in ListsOf(PrevLines, MaxDiffLen) }

InitDiff ==
    /\ assets = <<>>
    /\ riskLevel = "medium"
    /\ targetReturn = DefaultTarget
    /\ hasClaudeKey = FALSE
    /\ reply = NoReply
    /\ ret = [op |-> "none", out |-> NoCall]
    /\ snapshots = EmptyStore
    /\ saveLog = <<>>
    /\ prevRecs \in PrevStores
    /\ snap \in DiffSnapshots
    /\ analysis = NoCall
    /\ prices = <<>>
    /\ PageIdle
    /\ SchedulerOff

\* computePortfolioDiff(snapshot) of the snapshot in hand
CallComputePortfolioDiff ==
    /\ snap # NoSnapshot
    /\ prevRecs' = computePortfolioDiff(snap, prevRecs).store
    /\ ret' = [op |-> "computePortfolioDiff", out |-> computePortfolioDiff(snap, prevRecs).out]
    /\ UNCHANGED <<assets, riskLevel, targetReturn, hasClaudeKey, reply, snapshots, saveLog,
                   snap, analysis, prices, pageVars, schedVars>>

\* updatePrevRecommendations(snapshot) of the snapshot in hand
CallUpdatePrevRecommendations ==
    /\ snap # NoSnapshot
    /\ prevRecs' = updatePrevRecommendations(snap, prevRecs).store
    /\ ret' = [op |-> "updatePrevRecommendations",
               out |-> updatePrevRecommendations(snap, prevRecs).out]
    /\ UNCHANGED <<assets, riskLevel, targetReturn, hasClaudeKey, reply, snapshots, saveLog,
                   snap, analysis, prices, pageVars, schedVars>>

NextDiff == CallComputePortfolioDiff \/ CallUpdatePrevRecommendations

SpecDiff == InitDiff /\ [][NextDiff]_vars

----------------------------------------------------------------------------
\* Specification of the stores: any value under the two keys, the operations
\* that read them

CorruptSnapshots == { s \in DiffSnapshots : Len(s.recommendations) <= 1 }

InitCorrupt ==
    /\ assets = <<>>
    /\ riskLevel = "medium"
    /\ targetReturn = DefaultTarget
    /\ hasClaudeKey = FALSE
    /\ reply = NoReply
    /\ ret = [op |-> "none", out |-> NoCall]
    /\ snapshots \in CorruptValues \cup {Stored("list", <<>>)}
    /\ saveLog = <<>>
    /\ prevRecs \in CorruptValues \cup {Stored("list", <<>>)}
    /\ snap \in CorruptSnapshots
    /\ analysis = NoCall
    /\ prices = <<>>
    /\ PageIdle
    /\ SchedulerOff

\* saveSnapshot(snapshot) of the snapshot in hand
CallSaveSnapshotInHand ==
    /\ snap # NoSnapshot
    /\ Len(saveLog) < MaxSaves
    /\ snapshots' = saveSnapshot(snapshots, snap).store
    /\ saveLog' = Append(saveLog, snap)
    /\ ret' = [op |-> "saveSnapshot", out |-> saveSnapshot(snapshots, snap).out]
    /\ UNCHANGED <<assets, riskLevel, targetReturn, hasClaudeKey, reply,
                   prevRecs, snap, analysis, prices, pageVars, schedVars>>

\* loadLastSnapshot()
CallLoadLastSnapshot ==
    /\ ret' = [op |-> "loadLastSnapshot", out |-> loadLastSnapshot(snapshots)]
    /\ UNCHANGED <<assets, riskLevel, targetReturn, hasClaudeKey, reply, snapshots, saveLog,
                   prevRecs, snap, analysis, prices, pageVars, schedVars>>

NextCorrupt == CallSaveSnapshotInHand \/ CallLoadLastSnapshot \/ CallComputePortfolioDiff

SpecCorrupt == InitCorrupt /\ [][NextCorrupt]_vars

----------------------------------------------------------------------------
\* Specification of the performance tracking: any stored snapshot, any
\* current feed

MaxPerfLen == 2

PerfSymbols == {"THYAO", "BTC"}
EntryPrices == {0, 3, 4}

PerfLines ==
    { [symbol |-> sym, name |-> sym, allocation |-> al, priceAtRecommendation |-> pr] :
        sym \in PerfSymbols, al \in NewAllocs, pr \in EntryPrices }

PerfSnapshots ==
    { [id |-> 1, recommendations |-> l, targetReturn |-> DefaultTarget,
       riskLevel |-> "medium", dataSource |-> "live"] : l \in ListsOf(PerfLines, MaxPerfLen) }

\* current feeds: each symbol is absent or quoted at one of two prices
PerfFeeds ==
    { a \o b : a \in { <<>>, <<Asset("THYAO", "Turk Hava Yollari", "stock", "bist", 3, 0)>>,
                             <<Asset("THYAO", "Turk Hava Yollari", "stock", "bist", 5, 0)>> },
               b \in { <<>>, <<Asset("BTC", "Bitcoin", "crypto", "crypto", 0, 0)>>,
                             <<Asset("BTC", "Bitcoin", "crypto", "crypto", 6, 0)>> } }

InitPerf ==
    /\ assets \in PerfFeeds
    /\ riskLevel = "medium"
    /\ targetReturn = DefaultTarget
    /\ hasClaudeKey = FALSE
    /\ reply = NoReply
    /\ ret = [op |-> "none", out |-> NoCall]
    /\ snapshots = EmptyStore
    /\ saveLog = <<>>
    /\ prevRecs = EmptyStore
    /\ snap \in PerfSnapshots
    /\ analysis = NoCall
    /\ prices = <<>>
    /\ PageIdle
    /\ SchedulerOff

\* calculatePerformance(prevSnapshot, current)
CallCalculatePerformance ==
    /\ ret.op = "none"
    /\ ret' = [op |-> "calculatePerformance", out |-> Returned(calculatePerformance(snap, assets))]
    /\ UNCHANGED <<assets, riskLevel, targetReturn, hasClaudeKey, reply, snapshots, saveLog,
                   prevRecs, snap, analysis, prices, pageVars, schedVars>>

NextPerf == CallCalculatePerformance

SpecPerf == InitPerf /\ [][NextPerf]_vars

----------------------------------------------------------------------------
\* Specification of the low-risk scenario: a feed of two funds, a bond, a
\* domestic equity, an ETF and a crypto asset, in any order.  The engine
\* reads a weekly change only by its sign and by comparison with another
\* one, so the changes +1, +2, +0.5, +3, +1.5 and +5 percent are written
\* in halves of a percent.

ScenarioAssets ==
    << Asset("TEF1",  "Fon 1",             "fund",   "tefas",     2,  2),
       Asset("TEF2",  "Fon 2",             "fund",   "tefas",     3,  4),
       Asset("US10Y", "US 10Y",            "bond",   "bond",      4,  1),
       Asset("THYAO", "Turk Hava Yollari", "stock",  "bist",     10,  6),
       Asset("SPY",   "SPDR S&P 500 ETF",  "etf",    "us_stock", 30,  3),
       Asset("BTC",   "Bitcoin",           "crypto", "crypto",   50, 10) >>

\* the scenario's assets in every order a feed can list them
ScenarioFeeds ==
    { [i \in 1..Len(ScenarioAssets) |-> ScenarioAssets[p[i]]] :
        p \in { q \in [1..Len(ScenarioAssets) -> 1..Len(ScenarioAssets)] :
                  \A i, j \in 1..Len(ScenarioAssets) : q[i] = q[j] => i = j } }

InitScenario ==
    /\ assets \in ScenarioFeeds
    /\ riskLevel = "low"
    /\ targetReturn = DefaultTarget
    /\ hasClaudeKey = FALSE
    /\ reply = NoReply
    /\ ret = [op |-> "none", out |-> NoCall]
    /\ snapshots = EmptyStore
    /\ saveLog = <<>>
    /\ prevRecs = EmptyStore
    /\ snap = NoSnapshot
    /\ analysis = NoCall
    /\ prices = <<>>
    /\ PageIdle
    /\ SchedulerOff

NextScenario == CallGenerateAnalysis

SpecScenario == InitScenario /\ [][NextScenario]_vars

----------------------------------------------------------------------------
\* Specification of the RSI: price series that move by one step size, with
\* at most one step of another size

MaxPrices == 16

StartPrice == 100
StepSizes == {-1, 0, 1}
OddSteps == {-2, -1, 0, 1, 2}

RECURSIVE PricesFrom(_, _)
\* the prices after the steps st[1..n], starting at StartPrice
PricesFrom(st, n) ==
    IF n = 0 THEN <<StartPrice>>
    ELSE LET before == PricesFrom(st, n - 1)
         IN Append(before, before[n] + st[n])

PriceSeries ==
    {<<>>} \cup
    { PricesFrom([i \in 1..n |-> IF i = k THEN odd ELSE d], n) :
        n \in 0..(MaxPrices - 1), k \in 0..(MaxPrices - 1), d \in StepSizes, odd \in OddSteps }

InitRsi ==
    /\ assets = <<>>
    /\ riskLevel = "medium"
    /\ targetReturn = DefaultTarget
    /\ hasClaudeKey = FALSE
    /\ reply = NoReply
    /\ ret = [op |-> "none", out |-> NoCall]
    /\ snapshots = EmptyStore
    /\ saveLog = <<>>
    /\ prevRecs = EmptyStore
    /\ snap = NoSnapshot
    /\ analysis = NoCall
    /\ prices \in PriceSeries
    /\ PageIdle
    /\ SchedulerOff

\* calculateRSI(prices) with the default period
CallCalculateRSI ==
    /\ ret.op = "none"
    /\ ret' = [op |-> "calculateRSI", out |-> Returned(calculateRSI(prices, RSI_PERIOD))]
    /\ UNCHANGED <<assets, riskLevel, targetReturn, hasClaudeKey, reply, snapshots, saveLog,
                   prevRecs, snap, analysis, prices, pageVars, schedVars>>

NextRsi == CallCalculateRSI

SpecRsi == InitRsi /\ [][NextRsi]_vars

----------------------------------------------------------------------------
\* Specification of the technical signal: price series that move by one step
\* size, with at most one step of another, possibly large, size

SignalOddSteps == {-10, -2, 0, 2, 10}

SignalSeries ==
    {<<>>} \cup
    { PricesFrom([i \in 1..n |-> IF i = k THEN odd ELSE d], n) :
        n \in 0..(MaxPrices - 1), k \in 0..(MaxPrices - 1), d \in StepSizes,
        odd \in SignalOddSteps }

InitSignal ==
    /\ assets = <<>>
    /\ riskLevel = "medium"
    /\ targetReturn = DefaultTarget
    /\ hasClaudeKey = FALSE
    /\ reply = NoReply
    /\ ret = [op |-> "none", out |-> NoCall]
    /\ snapshots = EmptyStore
    /\ saveLog = <<>>
    /\ prevRecs = EmptyStore
    /\ snap = NoSnapshot
    /\ analysis = NoCall
    /\ prices \in SignalSeries
    /\ PageIdle
    /\ SchedulerOff

\* buildTechnicalSignal(symbol, prices)
CallBuildTechnicalSignal ==
    /\ ret.op = "none"
    /\ ret' = [op |-> "buildTechnicalSignal",
               out |-> Returned(buildTechnicalSignal("THYAO", prices))]
    /\ UNCHANGED <<assets, riskLevel, targetReturn, hasClaudeKey, reply, snapshots, saveLog,
                   prevRecs, snap, analysis, prices, pageVars, schedVars>>

NextSignal == CallBuildTechnicalSignal

SpecSignal == InitSignal /\ [][NextSignal]_vars

----------------------------------------------------------------------------
\* Specification of the page: runs of handleAnalyze from empty storage

\* successful runs explored
MaxRuns == 2

\* BTC quoted higher than in Universe
BtcUp == [Universe[7] EXCEPT !.price = 110]

\* what loadData may deliver: nothing, one instrument, two pools
PageFeeds ==
    { <<>>, SubFeed({7}, Len(Universe)), <<BtcUp>>, SubFeed({3, 7}, Len(Universe)) }

\* the model's answers: credential error, rate limit, network error, two
\* complete answers
PageReplies ==
    { [status |-> st, text |-> "nobody", parsed |-> NoBody] : st \in {0, 401, 429} }
    \cup { [status |-> 200, text |-> "json",
            parsed |-> Parsed("ozet", TRUE, recs, "metin")] :
              recs \in { <<AiRec("BTC", 50), AiRec("AAPL", 50)>>, <<AiRec("BTC", 51)>> } }

InitPage ==
    /\ assets \in PageFeeds
    /\ riskLevel \in RiskLevels
    /\ targetReturn = DefaultTarget
    /\ hasClaudeKey \in BOOLEAN
    /\ reply = NoReply
    /\ ret = [op |-> "none", out |-> NoCall]
    /\ snapshots = EmptyStore
    /\ saveLog = <<>>
    /\ prevRecs = EmptyStore
    /\ snap = NoSnapshot
    /\ analysis = NoCall
    /\ prices = <<>>
    /\ PageIdle
    /\ SchedulerOff

\* the Analyze button, enabled while no run is pending: setIsAnalyzing(true)
HandleAnalyzeBegin ==
    /\ pc = "idle"
    /\ ~isAnalyzing
    /\ Len(saveLog) < MaxRuns
    /\ isAnalyzing' = TRUE
    /\ pc' = "data"
    /\ ret' = [op |-> "handleAnalyze", out |-> NoCall]
    /\ UNCHANGED <<assets, riskLevel, targetReturn, hasClaudeKey, reply, snapshots, saveLog,
                   prevRecs, snap, analysis, prices, displayed, shownDiff, performance,
                   currentFeed, aiCall, schedVars>>

\* lines 193-214: loadData delivers a feed, or fails or misses its deadline and
\* the assets at hand are used; no asset is NO_DATA; then the AI engine is
\* called if a key is stored and time is left
HandleAnalyzeData ==
    /\ pc = "data"
    /\ \E loaded \in (PageFeeds \ {<<>>}) \cup {assets}, enoughTime \in BOOLEAN :
          /\ currentFeed' = loaded
          /\ pc' = IF Len(loaded) = 0 THEN "catch"
                   ELSE IF hasClaudeKey /\ enoughTime THEN "ai" ELSE "rule"
          /\ ret' = IF Len(loaded) = 0
                    THEN [op |-> "handleAnalyze", out |-> Thrown("NO_DATA")] ELSE ret
          /\ aiCall' = [aiCall EXCEPT !.awaited = Len(loaded) > 0 /\ hasClaudeKey /\ enoughTime]
    /\ UNCHANGED <<assets, riskLevel, targetReturn, hasClaudeKey, reply, snapshots, saveLog,
                   prevRecs, snap, analysis, prices, displayed, shownDiff, performance,
                   isAnalyzing, schedVars>>

\* lines 218 and 222: the rule-based engine gives the result, either because
\* the AI engine is not called or because the timer wins the race; the AI
\* call is then left running
RuleBasedResult ==
    /\ pc \in {"rule", "ai"}
    /\ pc = "ai" => aiCall.awaited
    /\ \E rule \in {generateAnalysis(currentFeed, targetReturn, riskLevel)} :
          analysis' = IF pc = "ai" THEN withTimeout(FALSE, NoCall, rule) ELSE rule
    /\ pc' = IF pc = "ai" THEN "deadline" ELSE "persist"
    /\ aiCall' = IF pc = "ai" THEN [awaited |-> FALSE, abandoned |-> aiCall.abandoned + 1]
                 ELSE aiCall
    /\ UNCHANGED <<assets, riskLevel, targetReturn, hasClaudeKey, reply, ret, snapshots,
                   saveLog, prevRecs, snap, prices, displayed, shownDiff, performance,
                   isAnalyzing, currentFeed, schedVars>>

\* lines 215-219: generateClaudeAnalysis settles before the deadline, with a
\* result or with the error it re-throws
AiSettlesInTime ==
    /\ pc = "ai"
    /\ aiCall.awaited
    /\ \E rp \in PageReplies :
       \E out \in {generateClaudeAnalysis(currentFeed, targetReturn, riskLevel, TRUE, rp)} :
          /\ reply' = rp
          /\ analysis' = withTimeout(TRUE, out, analysis)
          /\ pc' = IF out.kind = "return" THEN "persist" ELSE "catch"
          /\ ret' = IF out.kind = "return" THEN ret ELSE [op |-> "handleAnalyze", out |-> out]
    /\ aiCall' = [aiCall EXCEPT !.awaited = FALSE]
    /\ UNCHANGED <<assets, riskLevel, targetReturn, hasClaudeKey, snapshots, saveLog,
                   prevRecs, snap, prices, displayed, shownDiff, performance, isAnalyzing,
                   currentFeed, schedVars>>

\* lines 225-233 and finally: the result in hand is persisted, diffed and
\* displayed; a throw inside the block leads to the catch block
Persist ==
    /\ pc \in {"persist", "deadline"}
    /\ \E snapshot \in {buildSnapshotFromAnalysis(analysis.value, currentFeed, targetReturn,
                                                  riskLevel, "live")} :
       \E p \in {persistAndDiff(snapshot, snapshots, prevRecs)} :
          /\ snapshots' = p.history
          /\ prevRecs' = p.prev
          /\ snap' = snapshot
          /\ saveLog' = Append(saveLog, snapshot)
          /\ IF p.error = "none"
             THEN /\ displayed' = analysis
                  /\ performance' = perfOf(snapshots, currentFeed)
                  /\ shownDiff' = diffState(p.diff.value)
                  /\ ret' = [op |-> "handleAnalyze", out |-> analysis]
                  /\ assets' = currentFeed
                  /\ isAnalyzing' = FALSE
                  /\ pc' = "idle"
             ELSE /\ ret' = [op |-> "handleAnalyze", out |-> Thrown(p.error)]
                  /\ pc' = "catch"
                  /\ UNCHANGED <<displayed, performance, shownDiff, assets, isAnalyzing>>
    /\ UNCHANGED <<riskLevel, targetReturn, hasClaudeKey, reply, analysis, prices,
                   currentFeed, aiCall, schedVars>>

\* catch and finally: the rule-based analysis of the assets the page held
\* when the run began is displayed, isAnalyzing is cleared
CatchBlock ==
    /\ pc = "catch"
    /\ \E c \in {caught(assets, targetReturn, riskLevel, snapshots, prevRecs, displayed)} :
          /\ snapshots' = c.history
          /\ prevRecs' = c.prev
          /\ displayed' = c.displayed
    /\ assets' = IF Len(currentFeed) > 0 THEN currentFeed ELSE assets
    /\ isAnalyzing' = FALSE
    /\ pc' = "idle"
    /\ UNCHANGED <<riskLevel, targetReturn, hasClaudeKey, reply, ret, saveLog, snap,
                   analysis, prices, shownDiff, performance, currentFeed, aiCall, schedVars>>

\* an abandoned generateClaudeAnalysis promise settles: its outcome is dropped
AbandonedAiSettles ==
    /\ aiCall.abandoned > 0
    /\ \E rp \in PageReplies :
          /\ reply' = rp
          /\ displayed' = lateSettlement(displayed,
                             generateClaudeAnalysis(currentFeed, targetReturn, riskLevel,
                                                    TRUE, rp))
    /\ aiCall' = [aiCall EXCEPT !.abandoned = @ - 1]
    /\ UNCHANGED <<assets, riskLevel, targetReturn, hasClaudeKey, ret, snapshots, saveLog,
                   prevRecs, snap, analysis, prices, shownDiff, performance, isAnalyzing,
                   pc, currentFeed, schedVars>>

NextPage ==
    \/ HandleAnalyzeBegin
    \/ HandleAnalyzeData
    \/ RuleBasedResult
    \/ AiSettlesInTime
    \/ Persist
    \/ CatchBlock
    \/ AbandonedAiSettles

SpecPage == InitPage /\ [][NextPage]_vars

----------------------------------------------------------------------------
\* Specification of the weekly scheduler: timer checks, the end of onTrigger
\* and page reloads over one local storage

\* weeks the clock runs through
MaxWeeks == 2

\* Istanbul and New York
TimeZones == {3, -5}

InitSched ==
    /\ assets = <<>>
    /\ riskLevel = "medium"
    /\ targetReturn = DefaultTarget
    /\ hasClaudeKey = FALSE
    /\ reply = NoReply
    /\ ret = [op |-> "none", out |-> NoCall]
    /\ snapshots = EmptyStore
    /\ saveLog = <<>>
    /\ prevRecs = EmptyStore
    /\ snap = NoSnapshot
    /\ analysis = NoCall
    /\ prices = <<>>
    /\ PageIdle
    /\ now = 0
    /\ lastAuto = NoMarks
    /\ running = FALSE
    /\ onTrigger = "none"
    /\ triggered = <<>>
    /\ tz \in TimeZones

\* an hour passes.  onTrigger ends within the deadlines of handleAnalyze, so
\* the clock passes at most one hour mark while it is pending
Tick ==
    /\ now < MaxWeeks * HoursPerDay * DaysPerWeek - 1
    /\ onTrigger # "late"
    /\ now' = now + 1
    /\ onTrigger' = IF onTrigger = "pending" THEN "late" ELSE onTrigger
    /\ UNCHANGED <<assets, riskLevel, targetReturn, hasClaudeKey, reply, ret, snapshots,
                   saveLog, prevRecs, snap, analysis, prices, pageVars, lastAuto, running,
                   triggered, tz>>

\* check, lines 244-252, up to the call of onTrigger; a check that returns
\* early changes nothing
TimerCheck ==
    /\ ~running
    /\ shouldTrigger(now, tz, lastAuto)
    /\ running' = TRUE
    /\ lastAuto' = marksAtTrigger(now, tz, lastAuto)
    /\ onTrigger' = "pending"
    /\ triggered' = Append(triggered, now)
    /\ UNCHANGED <<assets, riskLevel, targetReturn, hasClaudeKey, reply, ret, snapshots,
                   saveLog, prevRecs, snap, analysis, prices, pageVars, now, tz>>

\* check, lines 253-257: onTrigger settles.  A successful automatic run of
\* handleAnalyze stores the markers again (Index.tsx, line 237)
OnTriggerSettles ==
    /\ onTrigger \in {"pending", "late"}
    /\ \E ok \in BOOLEAN :
          /\ onTrigger' = IF ok THEN "done" ELSE "failed"
          /\ lastAuto' = IF ok THEN markAutoAnalyzedToday(now, tz) ELSE lastAuto
    /\ running' = FALSE
    /\ UNCHANGED <<assets, riskLevel, targetReturn, hasClaudeKey, reply, ret, snapshots,
                   saveLog, prevRecs, snap, analysis, prices, pageVars, now, triggered, tz>>

\* the page is reloaded: a pending onTrigger goes with the old page,
\* startAutoScheduler begins with _running = false, local storage stays
Reload ==
    /\ running' = FALSE
    /\ onTrigger' = IF onTrigger \in {"pending", "late"} THEN "none" ELSE onTrigger
    /\ UNCHANGED <<assets, riskLevel, targetReturn, hasClaudeKey, reply, ret, snapshots,
                   saveLog, prevRecs, snap, analysis, prices, pageVars, now, lastAuto,
                   triggered, tz>>

NextSched == Tick \/ TimerCheck \/ OnTriggerSettles \/ Reload

SpecSched == InitSched /\ [][NextSched]_vars

----------------------------------------------------------------------------
\* Specification of the baseline round trip: updatePrevRecommendations and
\* computePortfolioDiff on snapshots built from results of the engines

IdemFeed == SubFeed({3, 7}, Len(Universe))

\* complete answers of one or two recommendations
IdemReplies ==
    { rp \in Replies : /\ rp.status = 200 /\ rp.text = "json"
                       /\ rp.parsed.summary = "ozet" /\ rp.parsed.isArray
                       /\ rp.parsed.riskNote = "metin"
                       /\ Len(rp.parsed.recommendations) \in 1..2 }

\* the snapshots handleAnalyze builds from AI results and rule-based results
IdemSnapshots ==
    { buildSnapshotFromAnalysis(
          generateClaudeAnalysis(IdemFeed, DefaultTarget, "medium", TRUE, rp).value,
          IdemFeed, DefaultTarget, "medium", "live") : rp \in IdemReplies }
    \cup { buildSnapshotFromAnalysis(generateAnalysis(IdemFeed, DefaultTarget, risk).value,
                                     IdemFeed, DefaultTarget, risk, "live") :
             risk \in RiskLevels }

InitIdem ==
    /\ assets = IdemFeed
    /\ riskLevel = "medium"
    /\ targetReturn = DefaultTarget
    /\ hasClaudeKey = TRUE
    /\ reply = NoReply
    /\ ret = [op |-> "none", out |-> NoCall]
    /\ snapshots = EmptyStore
    /\ saveLog = <<>>
    /\ prevRecs \in {EmptyStore,
                     Stored("list", <<[symbol |-> "BTC", name |-> "BTC", allocation |-> 12]>>)}
    /\ snap \in IdemSnapshots
    /\ analysis = NoCall
    /\ prices = <<>>
    /\ PageIdle
    /\ SchedulerOff

NextIdem == CallUpdatePrevRecommendations \/ CallComputePortfolioDiff

SpecIdem == InitIdem /\ [][NextIdem]_vars

----------------------------------------------------------------------------
\* Properties

RuleReturned == ret.op = "generateAnalysis" /\ ret.out.kind = "return"

ClaudeReturned == ret.op = "generateClaudeAnalysis" /\ ret.out.kind = "return"

AiReturned == ClaudeReturned /\ ret.out.value.isAiGenerated

Recs == ret.out.value.recommendations

Allocations == [i \in 1..Len(Recs) |-> Recs[i].allocation]

NoSymbolTwice(recs) == \A i, j \in 1..Len(recs) : recs[i].symbol = recs[j].symbol => i = j

\* C1: whenever generateAnalysis returns at least one recommendation, the
\* allocations of the recommendations sum to exactly 100.
C1_RuleAllocationsSumTo100 ==
    (RuleReturned /\ Len(Recs) >= 1) => Sum(Allocations) = 100

\* C2: every result generateClaudeAnalysis returns with isAiGenerated = true
\* has allocations summing to exactly 100, whatever the model answered.
C2_AiAllocationsSumTo100 ==
    AiReturned => Sum(Allocations) = 100

\* C3: no symbol appears twice in the recommendations generateAnalysis
\* returns, for every asset list and every risk level.
C3_RuleNoDuplicateSymbols ==
    RuleReturned => NoSymbolTwice(Recs)

\* C3 witness: the feed quotes a symbol twice, both quotes are in pools of the
\* blueprint, and the symbol is recommended next to at least two others.
C3_Witness ==
    /\ RuleReturned
    /\ Len(Recs) >= 3
    /\ \E i, j \in 1..Len(assets) :
          /\ i # j
          /\ assets[i].symbol = assets[j].symbol
          /\ assets[i].category # assets[j].category
          /\ \E k \in 1..Len(Recs) : Recs[k].symbol = assets[i].symbol

\* C4: no symbol appears twice in the recommendations of a result returned by
\* generateClaudeAnalysis, also when the model lists a symbol more than once.
C4_ClaudeNoDuplicateSymbols ==
    ClaudeReturned => NoSymbolTwice(Recs)

\* C5: when the proxy answers 401 or 429, generateClaudeAnalysis returns no
\* result: it throws CLAUDE_KEY_INVALID for 401 and CLAUDE_RATE_LIMIT for 429.
C5_CredentialAndRateLimitPropagate ==
    (ret.op = "generateClaudeAnalysis" /\ reply.status \in {401, 429}) =>
        /\ ret.out.kind = "throw"
        /\ ret.out.error = (IF reply.status = 401 THEN "CLAUDE_KEY_INVALID" ELSE "CLAUDE_RATE_LIMIT")

\* C5 witness: the proxy answered 429 on a feed the rule-based engine could
\* have served, and the call ended with the rate-limit error.
C5_Witness ==
    /\ ret.op = "generateClaudeAnalysis"
    /\ reply.status = 429
    /\ Len(assets) > 0
    /\ ret.out = Thrown("CLAUDE_RATE_LIMIT")

\* the proxy was called and the AI path failed for a reason other than 401/429
OtherAiFailure ==
    /\ ret.op = "generateClaudeAnalysis"
    /\ \/ reply.status \in {0, 500}
       \/ /\ reply.status = 200
          /\ \/ reply.text # "json"
             \/ reply.parsed.summary = ""
             \/ ~reply.parsed.isArray
             \/ reply.parsed.recommendations = <<>>

\* C6: on every failure of the AI path other than 401/429,
\* generateClaudeAnalysis returns without error the result of generateAnalysis
\* on the same inputs: isAiGenerated false, whyNow/risks/opportunities absent.
C6_OtherFailuresFallBack ==
    OtherAiFailure =>
        /\ ret.out.kind = "return"
        /\ ret.out = generateAnalysis(assets, targetReturn, riskLevel)
        /\ ~ret.out.value.isAiGenerated
        /\ ret.out.value.whyNow = "absent"
        /\ ret.out.value.risks = "absent"
        /\ ret.out.value.opportunities = "absent"

\* the rule-based engine ran, directly or as the fallback of the AI engine
RuleEngineRan ==
    \/ ret.op = "generateAnalysis"
    \/ ret.op = "generateClaudeAnalysis" /\ ~hasClaudeKey
    \/ OtherAiFailure

\* C7: when the asset list yields no pick at all, the rule-based engine
\* returns a result with zero recommendations instead of throwing, also when
\* it runs as the fallback of generateClaudeAnalysis.
C7_NoPickGivesEmptyResult ==
    (RuleEngineRan /\ weightedPicks(assets, riskLevel) = <<>>) =>
        /\ ret.out.kind = "return"
        /\ ret.out.value.recommendations = <<>>

\* C8: every recommendation of generateAnalysis is an asset of the feed with
\* price > 0.
C8_RecommendedAssetsHavePrice ==
    RuleReturned =>
        \A k \in 1..Len(Recs) :
            \E i \in 1..Len(assets) :
                /\ assets[i].symbol = Recs[k].symbol
                /\ assets[i].name = Recs[k].name
                /\ assets[i].price > 0

\* C9: every recommendation of generateAnalysis carries an integer
\* allocation of at least 1, the picks of the gainer fallback included.
C9_RuleAllocationsAtLeast1 ==
    RuleReturned =>
        \A k \in 1..Len(Recs) : ~IsNaN(Recs[k].allocation) /\ Recs[k].allocation >= 1

\* C10: after n saveSnapshot calls into an empty store the history holds the
\* last min(n, 10) saved snapshots in save order, so never more than 10.
C10_HistoryIsLast10Saved ==
    LET n == Len(saveLog)
        history == loadRaw(snapshots)
    IN /\ Len(history) = Min(n, 10)
       /\ \A i \in 1..Len(history) : history[i] = saveLog[n - Len(history) + i]

\* C10 witness: 11 snapshots were saved, 10 remain and the first is gone.
C10_Witness ==
    /\ Len(saveLog) = 11
    /\ Len(loadRaw(snapshots)) = 10
    /\ \A i \in 1..10 : loadRaw(snapshots)[i] # saveLog[1]
    /\ loadRaw(snapshots)[1] = saveLog[2]

SnapBuilt == ret.op = "buildSnapshotFromAnalysis"

\* the feed quotes the symbol with a known (positive) price
Priced(sym) == \E i \in 1..Len(assets) : assets[i].symbol = sym /\ assets[i].price > 0

\* the recommendation lines of the analysis whose symbol the feed prices
PricedLines ==
    LET lines == analysis.value.recommendations
    IN FilterPrefix(lines, {r \in Range(lines) : Priced(r.symbol)}, Len(lines))

\* C11: the snapshot built from an analysis has exactly the recommendation
\* lines whose symbol the feed quotes with a price above 0, in their order
\* and with their symbol, name and allocation; the entry price of a line is
\* the price of that asset, and no line is kept with an entry price of 0.
C11_SnapshotKeepsPricedLines ==
    SnapBuilt =>
        LET kept == PricedLines
            out == snap.recommendations
        IN /\ Len(out) = Len(kept)
           /\ \A i \in 1..Len(out) :
                 /\ out[i].symbol = kept[i].symbol
                 /\ out[i].name = kept[i].name
                 /\ out[i].allocation = kept[i].allocation
                 /\ out[i].priceAtRecommendation > 0
                 /\ \E j \in 1..Len(assets) :
                       /\ assets[j].symbol = out[i].symbol
                       /\ assets[j].price = out[i].priceAtRecommendation

\* a line is kept and a line of a quoted but unpriced asset is dropped
C11_Witness ==
    /\ SnapBuilt
    /\ Len(snap.recommendations) > 0
    /\ \E i \in 1..Len(analysis.value.recommendations) :
          /\ MapHas(assets, analysis.value.recommendations[i].symbol)
          /\ ~Priced(analysis.value.recommendations[i].symbol)

\* a line is kept and a line of a symbol the feed does not quote is dropped
C11_AbsentSymbolDropped ==
    /\ SnapBuilt
    /\ Len(snap.recommendations) > 0
    /\ \E i \in 1..Len(analysis.value.recommendations) :
          ~MapHas(assets, analysis.value.recommendations[i].symbol)

\* C12: when the value under the snapshot-history key, or under the
\* previous-recommendations key, is missing, unparsable or parses as something
\* that is not a list, saveSnapshot, loadLastSnapshot and computePortfolioDiff
\* end without an error and act as on an empty list: the history becomes the
\* saved snapshot alone, no last snapshot is returned, and the diff is the
\* diff against no previous recommendation.
C12_CorruptStoreReadAsEmpty ==
    [][ /\ (ret'.op = "saveSnapshot" /\ snapshots.kind # "list")
            => (ret'.out.kind = "return" /\ snapshots' = Stored("list", <<snap>>))
        /\ (ret'.op = "loadLastSnapshot" /\ snapshots.kind # "list")
            => (ret'.out.kind = "return" /\ ret'.out.value = NoSnapshot)
        /\ (ret'.op = "computePortfolioDiff" /\ prevRecs.kind # "list")
            => (ret'.out.kind = "return"
                /\ ret'.out.value = portfolioDiff(snap.recommendations, <<>>)) ]_vars

PerfDone == ret.op = "calculatePerformance"

\* the line's symbol is in the current feed and its entry price is known
Matched(rec) ==
    /\ \E i \in 1..Len(assets) : assets[i].symbol = rec.symbol
    /\ rec.priceAtRecommendation # 0

MatchedLines ==
    FilterPrefix(snap.recommendations,
                 {r \in Range(snap.recommendations) : Matched(r)},
                 Len(snap.recommendations))

\* C13: calculatePerformance gives one metric, in the snapshot's order, for
\* exactly the lines whose symbol is in the current feed and whose entry
\* price is known; totalPnL is the rounded sum of the contributions of these
\* metrics alone, and hasCurrentPrices is true exactly when there is a metric.
C13_MetricsForMatchedLinesOnly ==
    PerfDone =>
        LET res == ret.out.value
            lines == MatchedLines
        IN /\ Len(res.metrics) = Len(lines)
           /\ \A i \in 1..Len(lines) :
                 /\ res.metrics[i].symbol = lines[i].symbol
                 /\ res.metrics[i].allocation = lines[i].allocation
                 /\ res.metrics[i].priceAtRecommendation = lines[i].priceAtRecommendation
           /\ res.totalPnL = calculatePerformance([snap EXCEPT !.recommendations = lines],
                                                  assets).totalPnL
           /\ res.hasCurrentPrices = (Len(res.metrics) > 0)

\* a line is tracked with a non-zero result, one line has no current quote
\* and one has no entry price
C13_Witness ==
    /\ PerfDone
    /\ Len(ret.out.value.metrics) > 0
    /\ ret.out.value.totalPnL # 0
    /\ \E i \in 1..Len(snap.recommendations) :
          ~(\E j \in 1..Len(assets) : assets[j].symbol = snap.recommendations[i].symbol)

DiffDone == ret.op = "computePortfolioDiff" /\ ret.out.kind = "return"

\* the lines the diff compared: the snapshot's and the stored previous ones
NewRecs == snap.recommendations
PrevRecs == IF prevRecs.kind = "list" THEN prevRecs.list ELSE <<>>

NewSyms == {NewRecs[i].symbol : i \in 1..Len(NewRecs)}
PrevSyms == {PrevRecs[i].symbol : i \in 1..Len(PrevRecs)}

Diffs == ret.out.value.diffs

\* the list names each of the symbols once and no other
ListsExactly(list, syms) ==
    /\ {list[i] : i \in 1..Len(list)} = syms
    /\ \A i, j \in 1..Len(list) : i # j => list[i] # list[j]

\* C14: the diffs of computePortfolioDiff have each symbol of the new and of
\* the previous recommendations exactly once, as NEW when only the new list
\* has it, SELL when only the previous list has it and HOLD when both have
\* it; newSymbols and removedSymbols list exactly the NEW and the SELL symbols.
C14_DiffCoversUnionOnce ==
    DiffDone =>
        /\ ListsExactly([i \in 1..Len(Diffs) |-> Diffs[i].symbol], NewSyms \cup PrevSyms)
        /\ \A i \in 1..Len(Diffs) :
              /\ Diffs[i].action \in {"NEW", "SELL", "HOLD"}
              /\ Diffs[i].action = "NEW"  <=> Diffs[i].symbol \in NewSyms \ PrevSyms
              /\ Diffs[i].action = "SELL" <=> Diffs[i].symbol \in PrevSyms \ NewSyms
              /\ Diffs[i].action = "HOLD" <=> Diffs[i].symbol \in NewSyms \cap PrevSyms
        /\ ListsExactly(ret.out.value.newSymbols, NewSyms \ PrevSyms)
        /\ ListsExactly(ret.out.value.removedSymbols, PrevSyms \ NewSyms)

\* a diff with a NEW, a HOLD and a SELL symbol
C14_Witness ==
    /\ DiffDone
    /\ \A act \in {"NEW", "HOLD", "SELL"} : \E i \in 1..Len(Diffs) : Diffs[i].action = act

\* the allocations the list gives the symbol
AllocationsOf(list, sym) == {list[i].allocation : i \in {k \in 1..Len(list) : list[k].symbol = sym}}

Changed == {ret.out.value.changedSymbols[i] : i \in 1..Len(ret.out.value.changedSymbols)}

\* C15: a HOLD diff has allocationDelta = new allocation - previous
\* allocation and is in changedSymbols exactly when |allocationDelta| >= 3;
\* a SELL diff has allocationDelta = -(previous allocation); no NEW or SELL
\* symbol is in changedSymbols.
C15_DeltaAndChangedSymbols ==
    DiffDone =>
        \A i \in 1..Len(Diffs) :
            /\ Diffs[i].action = "HOLD" =>
                  /\ Diffs[i].allocation \in AllocationsOf(NewRecs, Diffs[i].symbol)
                  /\ Diffs[i].prevAllocation \in AllocationsOf(PrevRecs, Diffs[i].symbol)
                  /\ Diffs[i].allocationDelta = Diffs[i].allocation - Diffs[i].prevAllocation
                  /\ Diffs[i].symbol \in Changed
                        <=> (Diffs[i].allocationDelta >= 3 \/ Diffs[i].allocationDelta <= -3)
            /\ Diffs[i].action = "SELL" =>
                  /\ Diffs[i].prevAllocation \in AllocationsOf(PrevRecs, Diffs[i].symbol)
                  /\ Diffs[i].allocationDelta = 0 - Diffs[i].prevAllocation
                  /\ Diffs[i].symbol \notin Changed
            /\ Diffs[i].action = "NEW" => Diffs[i].symbol \notin Changed

\* a HOLD moved by exactly 3 points, which is listed, and one moved by 2, which is not
C15_Witness ==
    /\ DiffDone
    /\ \E i, j \in 1..Len(Diffs) :
          /\ Diffs[i].action = "HOLD" /\ Diffs[i].allocationDelta = 3
          /\ Diffs[i].symbol \in Changed
          /\ Diffs[j].action = "HOLD" /\ Diffs[j].allocationDelta = -2
          /\ Diffs[j].symbol \notin Changed

\* the group of an action in the sorted diffs
GroupOf(action) == IF action = "NEW" THEN 1 ELSE IF action = "HOLD" THEN 2 ELSE 3

\* the position of the first line of the symbol in the list
FirstPos(list, sym) ==
    CHOOSE i \in 1..Len(list) :
        list[i].symbol = sym /\ \A j \in 1..(i - 1) : list[j].symbol # sym

\* C16: in the diffs every NEW comes before every HOLD and every HOLD before
\* every SELL; NEW and HOLD diffs keep among themselves the order of the new
\* recommendations, SELL diffs the order of the previous ones.
C16_DiffsGroupedAndStable ==
    DiffDone =>
        \A i, j \in 1..Len(Diffs) :
            i < j =>
               /\ GroupOf(Diffs[i].action) <= GroupOf(Diffs[j].action)
               /\ (Diffs[i].action = Diffs[j].action /\ Diffs[i].action # "SELL")
                     => FirstPos(NewRecs, Diffs[i].symbol) < FirstPos(NewRecs, Diffs[j].symbol)
               /\ (Diffs[i].action = "SELL" /\ Diffs[j].action = "SELL")
                     => FirstPos(PrevRecs, Diffs[i].symbol) < FirstPos(PrevRecs, Diffs[j].symbol)

\* a NEW symbol that the new list has behind a HOLD symbol, and a SELL
C16_Witness ==
    /\ DiffDone
    /\ Len(Diffs) = 3
    /\ Diffs[1].action = "NEW" /\ Diffs[2].action = "HOLD" /\ Diffs[3].action = "SELL"
    /\ FirstPos(NewRecs, Diffs[2].symbol) < FirstPos(NewRecs, Diffs[1].symbol)

\* C17: computePortfolioDiff changes neither the stored previous
\* recommendations nor the snapshot history, so calling it again with the
\* same snapshot gives the same diff; only updatePrevRecommendations changes
\* the stored previous recommendations.
C17_DiffLeavesStoresUnchanged ==
    [][ /\ ret'.op = "computePortfolioDiff" => (prevRecs' = prevRecs /\ snapshots' = snapshots)
        /\ (ret.op = "computePortfolioDiff" /\ ret'.op = "computePortfolioDiff") => ret' = ret
        /\ prevRecs' # prevRecs => ret'.op = "updatePrevRecommendations" ]_vars

\* a diff with changes was computed and the stored list is still not the snapshot's
C17_Witness ==
    /\ DiffDone
    /\ ret.out.value.hasChanges
    /\ prevRecs.kind = "list"
    /\ prevRecs.list # prevRecsOf(snap)

\* the combined allocation of the picks of one blueprint slot
SlotAllocation(label) ==
    Sum([i \in 1..Len(Recs) |-> IF Recs[i].rationale[1] = label THEN Recs[i].allocation ELSE 0])

\* C18: in a rule-based result for risk level low the crypto picks carry at
\* most 5 together; in one for risk level high the mutual-fund picks carry
\* at most 5 and the bond/FX picks at most 5, whatever the feed holds.
C18_BlueprintCaps ==
    RuleReturned =>
        /\ riskLevel = "low" => SlotAllocation("crypto") <= 5
        /\ riskLevel = "high" => (SlotAllocation("tefas") <= 5 /\ SlotAllocation("bond") <= 5)

\* C19: for risk level low and the feed of 2 funds, 1 bond, 1 domestic
\* equity, 1 ETF and 1 crypto asset, generateAnalysis returns at least 5
\* recommendations that sum to 100, the two fund lines carrying about 30
\* together and the crypto line about 5 (about: within 5 points).
C19_ScenarioLowRisk ==
    RuleReturned =>
        /\ Len(Recs) >= 5
        /\ Sum(Allocations) = 100
        /\ Abs(SlotAllocation("tefas") - 30) <= 5
        /\ Abs(SlotAllocation("crypto") - 5) <= 5

\* what generateAnalysis does return for the scenario: six lines summing to
\* 100, the funds carrying 38 and the crypto line 5
C19_ScenarioAsComputed ==
    RuleReturned =>
        /\ Len(Recs) = 6
        /\ Sum(Allocations) = 100
        /\ SlotAllocation("tefas") = 38
        /\ SlotAllocation("crypto") = 5

RsiDone == ret.op = "calculateRSI"

NoStepDecreases == \A i \in 1..(Len(prices) - 1) : prices[i + 1] >= prices[i]
EveryStepDecreases == \A i \in 1..(Len(prices) - 1) : prices[i + 1] < prices[i]

\* C20: on a series of at least 15 prices calculateRSI with period 14
\* returns 100 (10000 hundredths) when no step decreases and 0 when every
\* step decreases; on a series of 14 or fewer prices it returns null.
C20_RsiBoundaries ==
    RsiDone =>
        /\ (Len(prices) >= 15 /\ NoStepDecreases) => ret.out.value = 100 * 100
        /\ (Len(prices) >= 15 /\ EveryStepDecreases) => ret.out.value = 0
        /\ Len(prices) <= 14 => ret.out.value = Null

\* 100 for a rising series with one flat step
C20_Witness ==
    /\ RsiDone
    /\ Len(prices) >= 15
    /\ NoStepDecreases
    /\ \E i \in 1..(Len(prices) - 1) : prices[i + 1] = prices[i]
    /\ \E i \in 1..(Len(prices) - 1) : prices[i + 1] > prices[i]
    /\ ret.out.value = 100 * 100

\* 0 for a falling series
C20_AllFalling == RsiDone /\ Len(prices) >= 15 /\ EveryStepDecreases /\ ret.out.value = 0

\* null for exactly 14 prices
C20_FourteenPoints == RsiDone /\ Len(prices) = 14 /\ ret.out.value = Null

\* a value strictly between the boundaries for a series that moves both ways
C20_Between == RsiDone /\ ret.out.value > 0 /\ ret.out.value < 100 * 100

SignalDone == ret.op = "buildTechnicalSignal"

Signal == ret.out.value

HasRsi == Signal.rsi14 # Null
HasBothSmas == Signal.sma7 # Null /\ Signal.sma14 # Null

\* the RSI is there and is above 70 or below 30
RsiDecides == HasRsi /\ (Signal.rsi14 > 7000 \/ Signal.rsi14 < 3000)

\* ((sma7 - sma14) / sma14) * 100, times 2 * sma14: compared with sma14 for 0.5
SmaDiffTimes2 == 200 * (Signal.sma7 - Signal.sma14)

\* C21: buildTechnicalSignal gives SELL for an RSI above 70 and BUY for an
\* RSI below 30 whatever the two SMAs are; otherwise, when both SMAs are
\* there, BUY for a diff above 0.5, SELL for a diff below -0.5 and NEUTRAL in
\* between; NEUTRAL when the RSI does not decide and an SMA is missing; and
\* the insufficient-data label when neither the RSI nor both SMAs are there.
C21_RsiBeforeSma ==
    SignalDone =>
        /\ (HasRsi /\ Signal.rsi14 > 7000) => Signal.signal = "SELL"
        /\ (HasRsi /\ Signal.rsi14 < 3000) => Signal.signal = "BUY"
        /\ (~RsiDecides /\ HasBothSmas) =>
              Signal.signal = (IF SmaDiffTimes2 > Signal.sma14 THEN "BUY"
                               ELSE IF SmaDiffTimes2 < -Signal.sma14 THEN "SELL"
                               ELSE "NEUTRAL")
        /\ (~RsiDecides /\ ~HasBothSmas) => Signal.signal = "NEUTRAL"
        /\ (~HasRsi /\ ~HasBothSmas) <=> Signal.label = INSUFFICIENT_DATA

\* the RSI says SELL where the SMAs alone would say BUY
C21_Witness ==
    /\ SignalDone
    /\ HasRsi /\ Signal.rsi14 > 7000
    /\ HasBothSmas /\ SmaDiffTimes2 > Signal.sma14
    /\ Signal.signal = "SELL"

\* the SMAs decide: no RSI (14 prices), falling averages
C21_SmaOnly == SignalDone /\ ~HasRsi /\ HasBothSmas /\ Signal.signal = "SELL"

\* the SMAs decide behind an RSI between 30 and 70
C21_SmaBehindNeutralRsi ==
    SignalDone /\ HasRsi /\ ~RsiDecides /\ HasBothSmas /\ Signal.signal = "BUY"

\* one SMA but not the other, and no RSI
C21_Insufficient ==
    SignalDone /\ Signal.sma7 # Null /\ Signal.sma14 = Null /\ Signal.label = INSUFFICIENT_DATA

----------------------------------------------------------------------------
\* handleAnalyze on the page

\* the snapshot on top of a history
Newest(st) == loadLastSnapshot(st).value

\* the run that just ended returned, resp. threw msg
RunReturned == ret.op = "handleAnalyze" /\ ret.out.kind = "return" /\ pc = "idle"
RunThrew(msg) == ret.op = "handleAnalyze" /\ ret.out = Thrown(msg) /\ pc = "idle"

\* C22: whenever a step of handleAnalyze changes the displayed analysis, the
\* same step has pushed the snapshot of that analysis onto the history (also
\* when it is the rule-based result shown after a credential or rate-limit
\* error of the AI engine)
C22_DisplayedAnalysisIsPersisted ==
    [][ displayed' # displayed
          => /\ snapshots' # snapshots
             /\ Newest(snapshots') = buildSnapshotFromAnalysis(
                    displayed'.value, currentFeed', targetReturn, riskLevel, "live") ]_vars

\* C23: when the deadline of the AI call passes, the result in hand is the
\* rule-based one for the same inputs; the step that ends that run displays
\* it, pushes its snapshot onto the history, shows its diff against the
\* stored baseline and stores its triples; when an abandoned AI call settles,
\* displayed analysis, history and baseline stay as they are
C23_DeadlineThenLateSettlement ==
    [][ /\ (pc = "ai" /\ pc' = "deadline")
          => analysis' = generateAnalysis(currentFeed, targetReturn, riskLevel)
        /\ (pc = "deadline" /\ pc' # "deadline")
          => LET rule == generateAnalysis(currentFeed, targetReturn, riskLevel)
                 built == buildSnapshotFromAnalysis(rule.value, currentFeed, targetReturn,
                                                    riskLevel, "live")
             IN /\ pc' = "idle"
                /\ displayed' = rule
                /\ loadRaw(snapshots') = Append(loadRaw(snapshots), built)
                /\ shownDiff' = diffState(portfolioDiff(built.recommendations,
                                                        loadPrevRecommendations(prevRecs)))
                /\ prevRecs' = Stored("list", prevRecsOf(built))
        /\ aiCall'.abandoned < aiCall.abandoned
          => UNCHANGED <<displayed, snapshots, prevRecs>> ]_vars

\* a run ended on the deadline and the abandoned call has answered since
C23_Witness ==
    /\ RunReturned
    /\ Len(saveLog) = 1
    /\ reply.status = 200
    /\ aiCall = NoAiCall
    /\ ~displayed.value.isAiGenerated

\* C24: a step that pushes a snapshot shows the diff of that snapshot against
\* the baseline as it stood before the step (all NEW when nothing was stored)
\* and leaves the snapshot's triples as the new baseline
C24_DiffBeforeOverwrite ==
    [][ snapshots' # snapshots
          => /\ shownDiff' = diffState(portfolioDiff(Newest(snapshots').recommendations,
                                                     loadPrevRecommendations(prevRecs)))
             /\ prevRecs' = Stored("list", prevRecsOf(Newest(snapshots')))
             /\ Len(loadRaw(snapshots)) = 0
                  => \A i \in 1..Len(shownDiff'.diffs) : shownDiff'.diffs[i].action = "NEW" ]_vars

\* the second successful run kept one line, dropped one and changed none
C24_Witness ==
    /\ RunReturned
    /\ Len(saveLog) = 2
    /\ \E i, j \in 1..Len(shownDiff.diffs) :
          shownDiff.diffs[i].action = "HOLD" /\ shownDiff.diffs[j].action = "SELL"

\* the first successful run: every line is NEW
C24_FirstRun ==
    /\ RunReturned
    /\ Len(saveLog) = 1
    /\ Len(shownDiff.diffs) > 0
    /\ \A i \in 1..Len(shownDiff.diffs) : shownDiff.diffs[i].action = "NEW"

\* C28: in every state the baseline holds the triples of the newest snapshot
\* of the history, and nothing while the history is empty
C28_BaselineIsNewestSnapshot ==
    loadPrevRecommendations(prevRecs) =
        IF Len(loadRaw(snapshots)) = 0 THEN <<>> ELSE prevRecsOf(Newest(snapshots))

\* a failed run after a successful one
C28_Witness ==
    /\ \E msg \in {"CLAUDE_KEY_INVALID", "CLAUDE_RATE_LIMIT"} : RunThrew(msg)
    /\ Len(loadRaw(snapshots)) = 1
    /\ Len(loadPrevRecommendations(prevRecs)) > 0

\* nothing stored yet and a run failed
C28_EmptyAfterFailure ==
    /\ RunThrew("NO_DATA")
    /\ Len(loadRaw(snapshots)) = 0
    /\ loadPrevRecommendations(prevRecs) = <<>>

\* C29: a step that ends a run with CLAUDE_KEY_INVALID, CLAUDE_RATE_LIMIT or
\* NO_DATA leaves history and baseline unchanged and clears isAnalyzing, and
\* history and baseline change in no step but one that ends a run successfully
C29_FailedRunStoresNothing ==
    [][ /\ (pc # "idle" /\ pc' = "idle" /\ ret'.out.kind = "throw"
              /\ ret'.out.error \in {"CLAUDE_KEY_INVALID", "CLAUDE_RATE_LIMIT", "NO_DATA"})
          => (UNCHANGED <<snapshots, prevRecs>> /\ ~isAnalyzing')
        /\ (snapshots' # snapshots \/ prevRecs' # prevRecs)
          => (pc # "idle" /\ pc' = "idle" /\ ret'.out.kind = "return") ]_vars

\* a rate-limit failure with a history at hand
C29_Witness ==
    /\ RunThrew("CLAUDE_RATE_LIMIT")
    /\ Len(loadRaw(snapshots)) > 0
    /\ ~isAnalyzing

\* a credential failure, resp. no market data
C29_KeyInvalid == RunThrew("CLAUDE_KEY_INVALID") /\ ~isAnalyzing
C29_NoData == RunThrew("NO_DATA") /\ ~isAnalyzing

----------------------------------------------------------------------------
\* the weekly scheduler

\* C25: a step that invokes onTrigger happens on a Sunday at local hour 9 or
\* later, in an ISO week in which onTrigger was not invoked before, while no
\* onTrigger is pending, and stores the day and week markers in that same
\* step
C25_OncePerWeekOnSunday ==
    [][ Len(triggered') > Len(triggered)
          => /\ isSunday(now) /\ getHours(now) >= TRIGGER_HOUR
             /\ \A i \in 1..Len(triggered) : isoWeekStr(triggered[i]) # isoWeekStr(now)
             /\ onTrigger \notin {"pending", "late"}
             /\ lastAuto' = markAutoAnalyzedToday(now, tz) ]_vars

\* onTrigger failed and the Sunday goes on, past the end of the UTC day
C25_Witness ==
    /\ Len(triggered) = 1
    /\ onTrigger = "failed"
    /\ ~running
    /\ isSunday(now)
    /\ now > triggered[1]
    /\ todayStr(now, tz) # todayStr(triggered[1], tz)

\* onTrigger was invoked in each of two weeks
C25_TwoWeeks == Len(triggered) = 2 /\ onTrigger = "pending"

----------------------------------------------------------------------------
\* allocations of the AI engine

\* C26: every recommendation of a result generateClaudeAnalysis returns with
\* isAiGenerated = true has an integer allocation from 0 to 100, the last
\* entry of a rescaled list included
C26_AiAllocationsInRange ==
    AiReturned => \A i \in 1..Len(Recs) : Recs[i].allocation \in 0..100

----------------------------------------------------------------------------
\* the blueprint of risk level medium

\* the lines of the result picked for one blueprint slot
SlotLines(label) == {i \in 1..Len(Recs) : Recs[i].rationale[1] = label}

\* every pool of the medium blueprint gave its full pick count
MediumFullPicks ==
    /\ RuleReturned
    /\ riskLevel = "medium"
    /\ Cardinality(SlotLines("bist")) = 2
    /\ \A label \in {"us", "tefas", "crypto", "commodity", "bond"} :
          Cardinality(SlotLines(label)) = 1

\* C27: for risk level medium with every pool giving its full pick count the
\* slots carry 25 (domestic equities), 20 (foreign equities), 20 (funds),
\* 15 (crypto), 10 (commodities) and 10 (bonds), the two domestic picks
\* carrying the same allocation
C27_MediumSlotsCarryBlueprint ==
    MediumFullPicks =>
        /\ SlotAllocation("bist") = 25
        /\ SlotAllocation("us") = 20
        /\ SlotAllocation("tefas") = 20
        /\ SlotAllocation("crypto") = 15
        /\ SlotAllocation("commodity") = 10
        /\ SlotAllocation("bond") = 10
        /\ \A i, j \in SlotLines("bist") : Recs[i].allocation = Recs[j].allocation

----------------------------------------------------------------------------
\* the baseline round trip

\* C30: computePortfolioDiff(s) called while the baseline is what
\* updatePrevRecommendations(s) stores returns only HOLD entries with
\* allocationDelta 0, no new, removed or changed symbol and hasChanges false
C30_DiffAfterUpdateIsAllHold ==
    (ret.op = "computePortfolioDiff"
       /\ prevRecs = updatePrevRecommendations(snap, prevRecs).store)
      => /\ ret.out.kind = "return"
         /\ \A i \in 1..Len(ret.out.value.diffs) :
               /\ ret.out.value.diffs[i].action = "HOLD"
               /\ ret.out.value.diffs[i].allocationDelta = 0
         /\ ret.out.value.newSymbols = <<>>
         /\ ret.out.value.removedSymbols = <<>>
         /\ ret.out.value.changedSymbols = <<>>
         /\ ~ret.out.value.hasChanges

====
